---- MODULE Spec2Model ----
(***************************************************************************)
(* Voice sentiment analysis: the satisfaction classifier of the local      *)
(* pipeline (voice_sentiment.py), the turn grouper, time formatting,       *)
(* transcript rendering, JSON recovery, the schema adjustments and the     *)
(* POST /analyze/ handler of the cloud pipeline (backend/main.py), the     *)
(* Voxtral server's POST /api/analyze (voxtral/server.py) and the Flask    *)
(* API's POST /analyze and POST /analyze/batch (api.py); two cloud         *)
(* requests served together, and get_analyzer (api.py) run by the threads  *)
(* of concurrent requests.                                                 *)
(*                                                                         *)
(* Each component has its own specification over the shared variables; the *)
(* variables of the other components stay at their idle values.            *)
(*                                                                         *)
(* Representation: a score is an integer number of hundredths; a timestamp *)
(* is an integer number of ticks (of 0.2 ms where it is formatted); a text *)
(* is a sequence of one-character                                          *)
(* strings; a Python dict is a function whose DOMAIN is its key set; an    *)
(* Optional value is a sequence of length 0 or 1.                          *)
(***************************************************************************)
EXTENDS Integers, Sequences, FiniteSets, TLC

VARIABLES
    \* voice_sentiment.py: classify_satisfaction
    sentiment, score, satisfaction,
    \* backend/main.py: _group_into_turns
    words,              \* the word events received
    wlist,              \* the word-type events, sorted, as the loop takes them
    grouping,           \* the value returned, if any
    group_error,        \* the exception raised instead, if any
    \* backend/main.py: _safe_parse_json and the schema adjustments
    text, parsed, sentiment_data,
    \* backend/main.py: _format_hhmmss and _render_transcript
    seconds,            \* the argument of _format_hhmmss: <<>> is None
    formatted,          \* the string returned, if any
    turns,              \* the turns given to _render_transcript
    label_map,          \* the speaker labels given to it
    transcript_block,   \* the text returned, if any
    \* backend/main.py: analyze_audio (POST /analyze/)
    env,                \* which API keys the environment holds
    files,              \* the uploaded files, in upload order
    pc,                 \* the handler's position
    file_idx,           \* the 1-based index of the file the loop is at
    stt,                \* the transcription of the current file
    prompt,             \* the prompt built for the current file
    sentiment_response, \* the text extracted from the model's response
    results,            \* the results list
    response,           \* the HTTP response, once given
    calls,              \* the stages run so far, in order, with the file's index
    answers,            \* what the services answered so far, with the file's index
    \* backend/main.py: two analyze_audio coroutines on one event loop
    running,            \* which of two requests holds the event loop, 0 with one request
    suspended,          \* the frame of the request that waits, if any
    \* voxtral/server.py: analyze (POST /api/analyze)
    MODEL_LOAD_ERR,     \* whether the model failed to load at import
    vx_file,            \* the upload
    vx_pc,              \* the handler's position
    vx_disk,            \* the temporary files that exist
    vx_decoded,         \* the text the model's output decoded to, if any
    vx_outcome,         \* what analyze_audio_file returned or raised
    vx_response,        \* the HTTP response, once given
    \* api.py: analyze_audio (POST /analyze) and analyze_batch (POST /analyze/batch)
    analyzer,           \* the global analyzer: "None" or the name of an instance
    endpoint,           \* "single" or "batch"
    audio_files,        \* the files of the 'audio' field, in upload order
    fl_pc,              \* the handler's position
    fl_i,               \* the 1-based index of the file the batch loop is at
    temp_files,         \* the paths the handler has written to, in order
    fl_disk,            \* the temporary files that exist
    fl_results,         \* the batch's results list
    fl_raised,          \* the message of the exception in flight, "" when none
    fl_response,        \* the HTTP response, once given
    \* api.py: get_analyzer called by the threads of concurrent requests
    ga_pc,              \* each thread's position in get_analyzer
    ga_new,             \* the instance each thread constructed, "None" if none
    ga_got,             \* the instance get_analyzer returned to each thread
    constructions       \* how many times VoiceSentimentAnalyzer() has returned

clsVars == <<sentiment, score, satisfaction>>
grpVars == <<words, wlist, grouping, group_error>>
jsonVars == <<text, parsed, sentiment_data>>
fmtVars == <<seconds, formatted, turns, label_map, transcript_block>>
cloudVars == <<env, files, pc, file_idx, stt, prompt, sentiment_response, results,
               response, calls, answers>>
concVars == <<running, suspended>>
raceVars == <<ga_pc, ga_new, ga_got, constructions>>
vxVars == <<MODEL_LOAD_ERR, vx_file, vx_pc, vx_disk, vx_decoded, vx_outcome,
            vx_response>>
flVars == <<analyzer, endpoint, audio_files, fl_pc, fl_i, temp_files, fl_disk,
            fl_results, fl_raised, fl_response>>
vars == <<sentiment, score, satisfaction, words, wlist, grouping, group_error,
          text, parsed, sentiment_data, seconds, formatted, turns, label_map, transcript_block,
          env, files, pc, file_idx, stt, prompt, sentiment_response, results,
          response, calls, answers, running, suspended,
          MODEL_LOAD_ERR, vx_file, vx_pc, vx_disk, vx_decoded, vx_outcome,
          vx_response,
          analyzer, endpoint, audio_files, fl_pc, fl_i, temp_files, fl_disk,
          fl_results, fl_raised, fl_response,
          ga_pc, ga_new, ga_got, constructions>>

\* The variables of the other components, which a component's steps leave alone.
notCls == <<grpVars, jsonVars, cloudVars, vxVars, flVars, fmtVars,
    concVars, raceVars>>
notGrp == <<clsVars, jsonVars, cloudVars, vxVars, flVars, fmtVars,
    concVars, raceVars>>
notJson == <<clsVars, grpVars, cloudVars, vxVars, flVars, fmtVars,
    concVars, raceVars>>
notCloud == <<clsVars, grpVars, jsonVars, vxVars, flVars, fmtVars,
    concVars, raceVars>>
notVx == <<clsVars, grpVars, jsonVars, cloudVars, flVars, fmtVars,
    concVars, raceVars>>
notFl == <<clsVars, grpVars, jsonVars, cloudVars, vxVars, fmtVars,
    concVars, raceVars>>
notFmt == <<clsVars, grpVars, jsonVars, cloudVars, vxVars, flVars,
    concVars, raceVars>>

\* A value the program has not produced yet.
None == "None"

(***************************************************************************)
(* Bounds of the model.                                                    *)
(***************************************************************************)
\* Scores range over 0..MaxScore hundredths.
MaxScore == 100
\* A word list holds at most MaxWords events.
MaxWords == 3
\* A word starts at a tick in 0..MaxStart.
MaxStart == 2
\* A model response given to _safe_parse_json holds at most MaxTextLen characters.
MaxTextLen == 6
\* A request uploads at most MaxFiles files.
MaxFiles == 2
\* The most members a response object given to the schema adjustments has.
MaxKeys == 3
\* The most word events of a loosely formed transcription.
MaxLooseWords == 3
\* The most whole hours of a duration that is formatted.
MaxHours == 1
\* The most turns of a transcript that is rendered.
MaxTurns == 2
MaxThreads == 3

(***************************************************************************)
(* voice_sentiment.py: VoiceSentimentAnalyzer.classify_satisfaction        *)
(***************************************************************************)
\* The literal 0.7 of the two comparisons, in hundredths.
Threshold == 70

\* The labels text_to_sentiment can return: the three of its label map, and
\* any other label of the sentiment model passed through unchanged.
Sentiments == {"POSITIVE", "NEGATIVE", "NEUTRAL", "OTHER"}
Scores == 0..MaxScore

classify_satisfaction_nonstrict(snt, sc) ==
    IF snt = "POSITIVE" /\ sc >= Threshold THEN "Satisfied"
    ELSE IF snt = "NEGATIVE" /\ sc >= Threshold THEN "Dissatisfied"
    ELSE "Neutral"

classify_satisfaction(snt, sc) ==
    IF snt = "POSITIVE" /\ sc > Threshold THEN "Satisfied"
    ELSE IF snt = "NEGATIVE" /\ sc > Threshold THEN "Dissatisfied"
    ELSE "Neutral"

ClsIdle == sentiment = None /\ score = 0 /\ satisfaction = None

ClsInit ==
    /\ sentiment \in Sentiments
    /\ score \in Scores
    /\ satisfaction = None

\* analyze_call step 3: the classification of the sentiment result.
Classify ==
    /\ satisfaction = None
    /\ satisfaction' = classify_satisfaction(sentiment, score)
    /\ UNCHANGED <<sentiment, score, notCls>>

(***************************************************************************)
(* backend/main.py: texts                                                  *)
(***************************************************************************)
IsSpace(c) == c \in {" ", "\n"}

RECURSIVE LStrip(_)
LStrip(t) == IF t # <<>> /\ IsSpace(Head(t)) THEN LStrip(Tail(t)) ELSE t

RECURSIVE RStrip(_)
RStrip(t) ==
    IF t # <<>> /\ IsSpace(t[Len(t)]) THEN RStrip(SubSeq(t, 1, Len(t) - 1)) ELSE t

\* str.strip()
Strip(t) == RStrip(LStrip(t))

(***************************************************************************)
(* backend/main.py: _group_into_turns                                      *)
(***************************************************************************)
\* dict.get(key, default)
Get(w, k, d) == IF k \in DOMAIN w THEN w[k] ELSE d

\* w.get("type") in (None, "word")
IsWordType(w) == Get(w, "type", None) \in {None, "word"}

\* wlist = [w for w in words if w.get("type") in (None, "word")]
FilterWordsKeepsAll(ws) == ws
FilterWords(ws) == SelectSeq(ws, IsWordType)

\* key=lambda w: (w.get("start", 0.0), w.get("end", 0.0))
SortKey(w) == <<Get(w, "start", 0), Get(w, "end", 0)>>

\* Python's ordering of two key tuples.
KeyLess(a, b) == a[1] < b[1] \/ (a[1] = b[1] /\ a[2] < b[2])

\* One insertion that puts w before the elements with an equal key.
RECURSIVE InsertSortedBeforeEqual(_, _)
InsertSortedBeforeEqual(sorted, w) ==
    IF sorted = <<>> THEN <<w>>
    ELSE IF ~KeyLess(SortKey(Head(sorted)), SortKey(w))
         THEN <<w>> \o sorted
         ELSE <<Head(sorted)>> \o InsertSortedBeforeEqual(Tail(sorted), w)

\* One insertion of a stable sort: w goes after every element whose key is
\* not greater than its own.
RECURSIVE InsertSorted(_, _)
InsertSorted(sorted, w) ==
    IF sorted = <<>> THEN <<w>>
    ELSE IF KeyLess(SortKey(w), SortKey(Head(sorted)))
         THEN <<w>> \o sorted
         ELSE <<Head(sorted)>> \o InsertSorted(Tail(sorted), w)

\* The list left in the order received.
SortWordsUnsorted(ws) == ws

\* list.sort(key=...): stable, ascending.
RECURSIVE SortWords(_)
SortWords(ws) ==
    IF ws = <<>> THEN <<>>
    ELSE InsertSorted(SortWords(SubSeq(ws, 1, Len(ws) - 1)), ws[Len(ws)])

\* The speaker id with no sentinel for a missing one.
WordSpeakerNoSentinel(w) == Get(w, "speaker_id", "")

\* spk = w.get("speaker_id") or "speaker_1"
WordSpeaker(w) ==
    LET s == Get(w, "speaker_id", "") IN IF s = "" THEN "speaker_1" ELSE s

\* start = float(w.get("start", 0.0))
WordStart(w) == Get(w, "start", 0)

\* end = float(w.get("end", start))
WordEnd(w) == Get(w, "end", WordStart(w))

\* txt = str(w.get("text", "")).strip()
WordText(w) == Strip(Get(w, "text", <<>>))

Max(a, b) == IF a >= b THEN a ELSE b

Contains(s, x) == \E i \in 1..Len(s) : s[i] = x

NewTurn(w) ==
    [speaker_id |-> WordSpeaker(w), start |-> WordStart(w),
     end |-> WordEnd(w), text |-> WordText(w)]

\* The state of the loop before its first iteration (lines 69-72).
GroupStart == [turns |-> <<>>, speakers_order |-> <<>>, curr |-> <<>>, duration |-> 0]

\* A same-speaker word that leaves the open turn's end where it was.
ExtendTurnKeepEnd(curr, w) ==
    [curr EXCEPT !.text = @ \o <<" ">> \o WordText(w)]

\* Lines 96-97: the open turn continued by a word of its speaker.
ExtendTurn(curr, w) ==
    [curr EXCEPT !.end = WordEnd(w), !.text = @ \o <<" ">> \o WordText(w)]

\* An empty word treated like any other: it opens, extends or closes a turn.
EmptyWordStepAsWord(acc, w) ==
    IF acc.curr = <<>>
    THEN [acc EXCEPT !.curr = <<NewTurn(w)>>,
                     !.duration = Max(acc.duration, WordEnd(w))]
    ELSE IF WordSpeaker(w) = acc.curr[1].speaker_id
         THEN [acc EXCEPT !.curr = <<ExtendTurn(acc.curr[1], w)>>,
                          !.duration = Max(acc.duration, WordEnd(w))]
         ELSE [acc EXCEPT !.turns = Append(acc.turns, acc.curr[1]),
                          !.curr = <<NewTurn(w)>>,
                          !.duration = Max(acc.duration, WordEnd(w))]

\* An empty word skipped before its end is counted.
EmptyWordStepNoDuration(acc, w) == acc

\* Lines 87-89: a word whose trimmed text is empty.
EmptyWordStep(acc, w) == [acc EXCEPT !.duration = Max(acc.duration, WordEnd(w))]

\* One iteration of the loop (lines 78-103).
GroupStep(acc0, w) ==
    LET spk == WordSpeaker(w)
        acc == IF Contains(acc0.speakers_order, spk) THEN acc0
               ELSE [acc0 EXCEPT !.speakers_order = Append(@, spk)]
    IN  IF WordText(w) = <<>> THEN EmptyWordStep(acc, w)
        ELSE LET next ==
                   IF acc.curr = <<>>
                   THEN [acc EXCEPT !.curr = <<NewTurn(w)>>]
                   ELSE IF spk = acc.curr[1].speaker_id
                        THEN [acc EXCEPT !.curr = <<ExtendTurn(acc.curr[1], w)>>]
                        ELSE [acc EXCEPT !.turns = Append(acc.turns, acc.curr[1]),
                                         !.curr = <<NewTurn(w)>>]
             IN [next EXCEPT !.duration = Max(next.duration, WordEnd(w))]

RECURSIVE GroupLoop(_, _)
GroupLoop(acc, ws) ==
    IF ws = <<>> THEN acc ELSE GroupLoop(GroupStep(acc, Head(ws)), Tail(ws))

\* The word events in the order the loop processes them (lines 75-76).
Processed(ws) == SortWords(FilterWords(ws))

_group_into_turns(ws) ==
    LET acc == GroupLoop(GroupStart, Processed(ws))
    IN [turns |-> IF acc.curr # <<>> THEN Append(acc.turns, acc.curr[1]) ELSE acc.turns,
        speakers |-> acc.speakers_order,
        duration |-> acc.duration]

\* The word events of a transcription: diarized speakers, unit-length words
\* on the tick grid, texts that are empty, blank, plain, or carry spaces to trim.
SpeakerIds == {"speaker_0", "speaker_1"}
Texts == {<<>>, <<" ">>, <<"h", "i">>, <<" ", "y", "o", " ">>}
WordEvents ==
    {[type |-> "word", speaker_id |-> s, start |-> t, end |-> t + 1, text |-> x] :
        s \in SpeakerIds, t \in 0..MaxStart, x \in Texts}

\* A start or an end that is no number: the event's non_numeric field maps the
\* key to what it holds instead, "null" or the string "abc".  On null both the
\* comparison of sort keys and float() raise TypeError; on "abc" the
\* comparison with a number raises TypeError and float() raises ValueError,
\* whichever meets it first.
NonNumeric(w) ==
    IF "non_numeric" \in DOMAIN w THEN DOMAIN w.non_numeric \cap {"start", "end"} ELSE {}
Raises(ws) == \E n \in 1..Len(ws) : IsWordType(ws[n]) /\ NonNumeric(ws[n]) # {}
RaisedBy(ws) ==
    IF \E n \in 1..Len(ws) :
          /\ IsWordType(ws[n])
          /\ \E k \in NonNumeric(ws[n]) : ws[n].non_numeric[k] = "abc"
    THEN {"TypeError", "ValueError"}
    ELSE {"TypeError"}

GrpIdle == words = <<>> /\ wlist = <<>> /\ grouping = <<>> /\ group_error = <<>>

GrpInit ==
    /\ \E n \in 0..MaxWords : words \in [1..n -> WordEvents]
    /\ wlist = <<>>
    /\ grouping = <<>>
    /\ group_error = <<>>

\* analyze_audio line 273: grouping = _group_into_turns(words)
GroupIntoTurns ==
    /\ grouping = <<>>
    /\ group_error = <<>>
    /\ ~Raises(words)
    /\ wlist' = Processed(words)
    /\ grouping' = <<_group_into_turns(words)>>
    /\ UNCHANGED <<words, group_error, notGrp>>

\* The same call on events on which the sort of line 76 or float() of lines
\* 80-81 raises: nothing is returned.
GroupIntoTurnsRaises ==
    /\ grouping = <<>>
    /\ group_error = <<>>
    /\ Raises(words)
    /\ \E e \in RaisedBy(words) : group_error' = <<e>>
    /\ UNCHANGED <<words, wlist, grouping, notGrp>>

\* Word events as a transcription service may also send them: without a
\* type, a speaker or an end, of zero length, overlapping another speaker's,
\* with blank text, ending before it starts, of type null, and events that are no words.
LooseWordEvents ==
    {[type |-> "word", speaker_id |-> "speaker_0", start |-> 0, end |-> 1, text |-> <<"a">>],
     [type |-> "word", speaker_id |-> "speaker_1", start |-> 0, end |-> 1, text |-> <<"b">>],
     [type |-> "word", speaker_id |-> "speaker_0", start |-> 1, end |-> 2, text |-> <<"a">>],
     [speaker_id |-> "speaker_1", start |-> 1, end |-> 1, text |-> <<"b">>],
     [type |-> "word", speaker_id |-> "speaker_0", start |-> 1, text |-> <<"a">>],
     [type |-> "word", start |-> 0, end |-> 2, text |-> <<"b">>],
     [type |-> "word", speaker_id |-> "speaker_1", start |-> 1, end |-> 2, text |-> <<" ">>],
     [type |-> "word", speaker_id |-> "speaker_2", start |-> 2, text |-> <<" ">>],
     [type |-> "word", speaker_id |-> "speaker_0", start |-> 2, end |-> 2, text |-> <<"b">>],
     [type |-> "word", speaker_id |-> "speaker_1", end |-> 1, text |-> <<"a">>],
     [type |-> "word", speaker_id |-> "speaker_0", start |-> 2, end |-> 1, text |-> <<"a">>],
     [type |-> None, speaker_id |-> "speaker_1", start |-> 2, end |-> 3, text |-> <<"b">>],
     [type |-> "spacing", speaker_id |-> "speaker_0", start |-> 2, end |-> 3, text |-> <<" ">>],
     [type |-> "audio_event", speaker_id |-> "speaker_3", start |-> 0, end |-> 3, text |-> <<"a">>]}

LooseInit ==
    /\ \E n \in 0..MaxLooseWords : words \in [1..n -> LooseWordEvents]
    /\ wlist = <<>>
    /\ grouping = <<>>
    /\ group_error = <<>>

\* Word events whose start or end is missing, null or a string that is no
\* number, among well-formed ones.
MalformedWordEvents ==
    {[type |-> "word", speaker_id |-> "speaker_0", start |-> 0, end |-> 1, text |-> <<"a">>],
     [type |-> "word", speaker_id |-> "speaker_1", start |-> 1, end |-> 2, text |-> <<"b">>],
     [type |-> "word", speaker_id |-> "speaker_0", start |-> 1, text |-> <<"a">>],
     [type |-> "word", speaker_id |-> "speaker_1", end |-> 2, text |-> <<"b">>],
     [type |-> "word", speaker_id |-> "speaker_1", text |-> <<"a">>],
     [type |-> "word", speaker_id |-> "speaker_0", end |-> 1, text |-> <<"a">>,
      non_numeric |-> [start |-> "null"]],
     [type |-> "word", speaker_id |-> "speaker_1", start |-> 1, text |-> <<"b">>,
      non_numeric |-> [end |-> "null"]],
     [type |-> "word", speaker_id |-> "speaker_0", end |-> 2, text |-> <<"a">>,
      non_numeric |-> [start |-> "abc"]],
     [type |-> "spacing", speaker_id |-> "speaker_0", end |-> 2, text |-> <<" ">>,
      non_numeric |-> [start |-> "null"]]}

MalformedInit ==
    /\ \E n \in 0..MaxLooseWords : words \in [1..n -> MalformedWordEvents]
    /\ wlist = <<>>
    /\ grouping = <<>>
    /\ group_error = <<>>

(***************************************************************************)
(* backend/main.py: json.loads on a model response                         *)
(*                                                                         *)
(* A response is a sequence of characters and JSON tokens: "{", "}", ",",  *)
(* the digit "1", a key with its colon (one token per key name), white     *)
(* space " ", and "x" for any character that no JSON value can hold        *)
(* outside a string.  The JSON values are the numbers 1, 11, ... and the   *)
(* objects over these keys.                                                *)
(***************************************************************************)
\* A key token and the key it names.
KeyTokens == {"K", "P", "S", "C", "R", "E"}
KeyName(c) ==
    IF c = "K" THEN "a"
    ELSE IF c = "P" THEN "per_turn"
    ELSE IF c = "C" THEN "compliance_flags"
    ELSE IF c = "R" THEN "escalation_risk"
    ELSE IF c = "E" THEN "escalation_reason"
    ELSE "sentiment_analysis"

\* Python values: numbers, strings, dicts (items in insertion order).
JNum(n) == [kind |-> "number", digits |-> n, chars |-> <<>>, items |-> <<>>]
JStr(t) == [kind |-> "string", digits |-> 0, chars |-> t, items |-> <<>>]
JObj(items) == [kind |-> "object", digits |-> 0, chars |-> <<>>, items |-> items]

HasKey(items, k) == \E n \in 1..Len(items) : items[n].key = k

\* d[k] = v: a repeated key keeps its place and takes the later value.
SetItem(items, k, v) ==
    IF HasKey(items, k)
    THEN [n \in 1..Len(items) |->
            IF items[n].key = k THEN [key |-> k, value |-> v] ELSE items[n]]
    ELSE Append(items, [key |-> k, value |-> v])

\* The decoder's whitespace skip: the first index from i on that holds no space.
RECURSIVE SkipWs(_, _)
SkipWs(t, i) == IF i <= Len(t) /\ IsSpace(t[i]) THEN SkipWs(t, i + 1) ELSE i

\* The number of digits from index i on.
RECURSIVE DigitRun(_, _)
DigitRun(t, i) == IF i <= Len(t) /\ t[i] = "1" THEN 1 + DigitRun(t, i + 1) ELSE 0

DecodeError == [ok |-> FALSE, value |-> JNum(0), next |-> 0]
Decoded(v, n) == [ok |-> TRUE, value |-> v, next |-> n]

\* json.decoder scan_once at index i, and JSONObject's member loop.
RECURSIVE ParseValue(_, _)
RECURSIVE ParseMembers(_, _, _)
ParseValue(t, i) ==
    IF i > Len(t) THEN DecodeError
    ELSE IF t[i] = "1" THEN Decoded(JNum(DigitRun(t, i)), i + DigitRun(t, i))
    ELSE IF t[i] = "{"
         THEN LET j == SkipWs(t, i + 1)
              IN IF j <= Len(t) /\ t[j] = "}" THEN Decoded(JObj(<<>>), j + 1)
                 ELSE ParseMembers(t, j, <<>>)
    ELSE DecodeError

ParseMembers(t, i, items) ==
    IF i > Len(t) \/ t[i] \notin KeyTokens THEN DecodeError
    ELSE LET v == ParseValue(t, SkipWs(t, i + 1))
         IN IF ~v.ok THEN DecodeError
            ELSE LET j == SkipWs(t, v.next)
                     items2 == SetItem(items, KeyName(t[i]), v.value)
                 IN IF j > Len(t) THEN DecodeError
                    ELSE IF t[j] = "}" THEN Decoded(JObj(items2), j + 1)
                    ELSE IF t[j] = "," THEN ParseMembers(t, SkipWs(t, j + 1), items2)
                    ELSE DecodeError

\* json.loads(t): one value, white space around it, nothing else.  ok = FALSE
\* is the JSONDecodeError it raises.
Loads(t) ==
    LET v == ParseValue(t, SkipWs(t, 1))
    IN IF v.ok /\ SkipWs(t, v.next) > Len(t) THEN [ok |-> TRUE, value |-> v.value]
       ELSE [ok |-> FALSE, value |-> JNum(0)]

\* str.find and str.rfind: a 0-based index, or -1.
Find(t, c) ==
    IF \E i \in 1..Len(t) : t[i] = c
    THEN (CHOOSE i \in 1..Len(t) : t[i] = c /\ \A j \in 1..(i - 1) : t[j] # c) - 1
    ELSE -1
RFind(t, c) ==
    IF \E i \in 1..Len(t) : t[i] = c
    THEN (CHOOSE i \in 1..Len(t) : t[i] = c /\ \A j \in (i + 1)..Len(t) : t[j] # c) - 1
    ELSE -1

\* text[a:b] for 0 <= a, 0 <= b.
Slice(t, a, b) == SubSeq(t, a + 1, IF b > Len(t) THEN Len(t) ELSE b)

(***************************************************************************)
(* backend/main.py: _safe_parse_json                                       *)
(***************************************************************************)
Returned(v) == [raised |-> FALSE, value |-> v]
Raised == [raised |-> TRUE, value |-> JNum(0)]

RawResponse(t) == JObj(<<[key |-> "raw_response", value |-> JStr(t)]>>)

\* The candidate cut one character short: text[start : end].
_safe_parse_json_short_slice(t) ==
    IF Loads(t).ok THEN Returned(Loads(t).value)
    ELSE LET start == Find(t, "{")
             end == RFind(t, "}")
         IN IF start # -1 /\ end # -1 /\ end > start /\ Loads(Slice(t, start, end)).ok
            THEN Returned(Loads(Slice(t, start, end)).value)
            ELSE Returned(RawResponse(t))

_safe_parse_json(t) ==
    IF Loads(t).ok THEN Returned(Loads(t).value)
    ELSE LET start == Find(t, "{")
             end == RFind(t, "}")
         IN IF start # -1 /\ end # -1 /\ end > start /\ Loads(Slice(t, start, end + 1)).ok
            THEN Returned(Loads(Slice(t, start, end + 1)).value)
            ELSE Returned(RawResponse(t))

\* The characters of the responses given to _safe_parse_json alone.
JsonChars == {"{", "}", "K", "1", "x", " "}

JsonIdle == text = <<>> /\ parsed = <<>> /\ sentiment_data = <<>>

\* analyze_audio line 348: sentiment_data = _safe_parse_json(sentiment_response)
SafeParseJson ==
    /\ parsed = <<>>
    /\ parsed' = <<_safe_parse_json(text)>>
    /\ UNCHANGED <<text, sentiment_data, notJson>>

(***************************************************************************)
(* backend/main.py: _format_hhmmss                                         *)
(*                                                                         *)
(* A time in seconds is a whole number of ticks of 0.2 ms.  At this        *)
(* resolution the fraction of a second times 1000 is never half way        *)
(* between two integers, so round() has no tie to break and the floating   *)
(* point error of the subtraction cannot change its result.                *)
(***************************************************************************)
TicksPerSecond == 5000

\* The decimal digits of n >= 0, and "{n:0<width>d}".
DigitChars == <<"0", "1", "2", "3", "4", "5", "6", "7", "8", "9">>
RECURSIVE Digits(_)
Digits(n) ==
    IF n < 10 THEN <<DigitChars[n + 1]>>
    ELSE Digits(n \div 10) \o <<DigitChars[(n % 10) + 1]>>
ZeroPad(n, width) ==
    [k \in 1..(width - Len(Digits(n))) |-> "0"] \o Digits(n)

\* int(round((seconds - int(seconds)) * 1000)) for a time of n ticks.
Millis(n) ==
    ((n % TicksPerSecond) * 2000 + TicksPerSecond) \div (2 * TicksPerSecond)

\* _format_hhmmss, lines 32-40, for None and for a time of secs[1] >= 0 ticks.
_format_hhmmss(secs) ==
    IF secs = <<>> THEN <<"0", "0", ":", "0", "0", ":", "0", "0">>
    ELSE LET ms == Millis(secs[1])
             s == secs[1] \div TicksPerSecond
             h == s \div 3600
             m == (s % 3600) \div 60
             sec == s % 60
         IN ZeroPad(h, 2) \o <<":">> \o ZeroPad(m, 2) \o <<":">>
            \o ZeroPad(sec, 2) \o <<".">> \o ZeroPad(ms, 3)

\* The durations formatted: None, and hours, minutes, seconds and a
\* fraction at and next to the ends of their ranges; 2000 ticks are 0.4 s.
FmtMinutes == {0, 2, 59}
FmtSeconds == {0, 5, 59}
FmtTicks == {0, 1, 2, 3, 2000, 4997, 4998, 4999}
Durations ==
    {((h * 3600 + m * 60 + sec) * TicksPerSecond) + f :
        h \in 0..MaxHours, m \in FmtMinutes, sec \in FmtSeconds, f \in FmtTicks}

FmtIdle ==
    /\ seconds = <<>>
    /\ formatted = <<>>
    /\ turns = <<>>
    /\ label_map = <<>>
    /\ transcript_block = <<>>

FormatInit ==
    /\ seconds \in {<<>>} \cup {<<n>> : n \in Durations}
    /\ formatted = <<>>
    /\ turns = <<>>
    /\ label_map = <<>>
    /\ transcript_block = <<>>

\* analyze_audio line 284: duration_str = _format_hhmmss(duration)
FormatHhmmss ==
    /\ formatted = <<>>
    /\ formatted' = <<_format_hhmmss(seconds)>>
    /\ UNCHANGED <<seconds, turns, label_map, transcript_block, notFmt>>

(***************************************************************************)
(* backend/main.py: analyze_audio, the POST /analyze/ handler              *)
(***************************************************************************)
\* An uploaded file: its filename ("" when the part carries none), split
\* into stem and extension, and the number of bytes of its content.
Upload(stem, ext, size) == [stem |-> stem, ext |-> ext, size |-> size]
Filename(f) == f.stem \o f.ext
Uploads ==
    {Upload("", "", 1), Upload("a", ".wav", 1), Upload("a", ".wav", 0),
     Upload("notes", ".txt", 1)}

\* What the transcription service can answer (transcribe_with_elevenlabs):
\* a transcription, a non-200 status with a body, a 200 whose body is no
\* JSON, or no answer at all (the connection fails or the 120 s timeout
\* passes: httpx raises).  A transcription's words are word events; with
\* null_start one of them carries "start": null, on which float() raises.
SttAnswer(kind, status, body, txt, ws, null_start) ==
    [kind |-> kind, status |-> status, body |-> body, text |-> txt, words |-> ws,
     null_start |-> null_start]
NoStt == SttAnswer("none", "", "", <<>>, <<>>, FALSE)
SttWords ==
    <<[type |-> "word", speaker_id |-> "speaker_0", start |-> 0, end |-> 1, text |-> <<"h", "i">>],
      [type |-> "word", speaker_id |-> "speaker_1", start |-> 1, end |-> 2, text |-> <<"y", "o">>]>>
SttAnswers ==
    {SttAnswer("ok", "200", "", <<"h", "i", " ", "y", "o", " ">>, SttWords, FALSE),
     SttAnswer("ok", "200", "", <<>>, <<>>, TRUE),
     SttAnswer("status", "429", "quota exceeded", <<>>, <<>>, FALSE),
     SttAnswer("invalid_json", "200", "<html>", <<>>, <<>>, FALSE),
     SttAnswer("raise", "", "timed out", <<>>, <<>>, FALSE),
     SttAnswer("raise", "", "connection refused", <<>>, <<>>, FALSE)}

\* What client.responses.create can do: raise, or return a response with
\* its output_text helper and the text parts of its output items.
GenAnswer(kind, message, output_text, parts) ==
    [kind |-> kind, message |-> message, output_text |-> output_text, parts |-> parts]
GenAnswers ==
    {GenAnswer("raise", "rate limit", <<>>, <<>>),
     GenAnswer("response", "", <<>>, <<>>),
     GenAnswer("response", "", <<"{", "K", "1", "}">>, <<>>),
     GenAnswer("response", "", <<"x", "{", "P", "1", ",", "S", "1", "}", "x">>, <<>>),
     GenAnswer("response", "", <<"x", "x">>, <<>>),
     GenAnswer("response", "", <<>>, << <<"{", "K", "1">>, <<"}">> >>)}

\* "\n".join(parts)
RECURSIVE JoinLines(_)
JoinLines(parts) ==
    IF Len(parts) = 1 THEN parts[1]
    ELSE parts[1] \o <<"\n">> \o JoinLines(Tail(parts))

\* Lines 326-341: the response's text, <<>> when there is none.
ResponseText(g) ==
    IF g.output_text # <<>> THEN g.output_text
    ELSE IF g.parts # <<>> THEN JoinLines(g.parts)
    ELSE <<>>

\* dict.pop(k, None)
Pop(items, k) == SelectSeq(items, LAMBDA it : it.key # k)

\* dict.setdefault(k, v)
SetDefault(items, k, v) == IF HasKey(items, k) THEN items ELSE SetItem(items, k, v)

DefaultSentimentAnalysis ==
    JStr(<<"C", "r", "i", "t", "i", "c", "a", "l">>)

\* The adjustments without the pop of "escalation_reason".
AdjustSchemaKeepsReason(v) ==
    IF v.kind = "object"
    THEN JObj(SetDefault(
                Pop(Pop(Pop(v.items, "per_turn"), "compliance_flags"),
                    "escalation_risk"),
                "sentiment_analysis", DefaultSentimentAnalysis))
    ELSE v

\* Lines 350-359: the schema adjustments, made to a dict only.
AdjustSchema(v) ==
    IF v.kind = "object"
    THEN JObj(SetDefault(
                Pop(Pop(Pop(Pop(v.items, "per_turn"), "compliance_flags"),
                        "escalation_risk"), "escalation_reason"),
                "sentiment_analysis", DefaultSentimentAnalysis))
    ELSE v

\* Lines 348-359 on a response text alone: sentiment_data after the
\* adjustments.
EnforceSchema ==
    /\ parsed # <<>> /\ sentiment_data = <<>>
    /\ sentiment_data' = <<AdjustSchema(parsed[1].value)>>
    /\ UNCHANGED <<text, parsed, notJson>>

\* The response texts given to the adjustments: an object whose p-th member
\* has the value of p digits, alone, inside other text, or cut short; and a
\* number.
RECURSIVE Members(_, _)
Members(ks, p) ==
    IF p > Len(ks) THEN <<>>
    ELSE <<ks[p]>> \o [d \in 1..p |-> "1"]
         \o (IF p < Len(ks) THEN <<",">> ELSE <<>>) \o Members(ks, p + 1)
SchemaVariants == {"object", "embedded", "cut short", "number"}
SchemaText(variant, ks) ==
    IF variant = "object" THEN <<"{">> \o Members(ks, 1) \o <<"}">>
    ELSE IF variant = "embedded"
    THEN <<"x", " ", "{">> \o Members(ks, 1) \o <<"}", "x">>
    ELSE IF variant = "cut short" THEN <<"{">> \o Members(ks, 1)
    ELSE [d \in 1..(Len(ks) + 1) |-> "1"]

(***************************************************************************)
(* backend/main.py: _render_transcript                                     *)
(*                                                                         *)
(* A label map is the sequence of its entries, in insertion order; the     *)
(* label k stands for the string "Speaker k".                              *)
(***************************************************************************)
LabelChars(k) == <<"S", "p", "e", "a", "k", "e", "r", " ">> \o Digits(k)

\* label_map.get(t["speaker_id"], t["speaker_id"])
LabelOf(lm, spk) ==
    IF \E k \in 1..Len(lm) : lm[k].speaker_id = spk
    THEN LabelChars(lm[CHOOSE k \in 1..Len(lm) : lm[k].speaker_id = spk].label)
    ELSE <<spk>>

\* The line of a turn with its text as it stands.
RenderLineUntrimmed(t, lm) ==
    <<"[">> \o _format_hhmmss(<<t.start>>) \o <<" ", "-", " ">>
    \o _format_hhmmss(<<t.end>>) \o <<"]", " ">> \o LabelOf(lm, t.speaker_id)
    \o <<":", " ">> \o t.text

\* Lines 114-118: the line of a turn.
RenderLine(t, lm) ==
    <<"[">> \o _format_hhmmss(<<t.start>>) \o <<" ", "-", " ">>
    \o _format_hhmmss(<<t.end>>) \o <<"]", " ">> \o LabelOf(lm, t.speaker_id)
    \o <<":", " ">> \o Strip(t.text)

\* _render_transcript: "\n".join(lines), "" for no lines.
_render_transcript(ts, lm) ==
    IF ts = <<>> THEN <<>>
    ELSE JoinLines([k \in 1..Len(ts) |-> RenderLine(ts[k], lm)])

\* The turns rendered: either speaker, from 0 s to 1.4 s or for the tick
\* after 125.4 s, with a text to print as it is or to trim first.
RenderTurns ==
    {[speaker_id |-> spk, start |-> span[1], end |-> span[2], text |-> x] :
        spk \in SpeakerIds,
        span \in {<<0, 7000>>, <<627000, 627001>>},
        x \in {<<"h", "i">>, <<" ", "y", "o", " ", "u", "\n">>}}
LabelMaps ==
    {<<[speaker_id |-> "speaker_0", label |-> 1], [speaker_id |-> "speaker_1", label |-> 2]>>,
     <<[speaker_id |-> "speaker_1", label |-> 1], [speaker_id |-> "speaker_0", label |-> 2]>>}

RenderInit ==
    /\ \E n \in 0..MaxTurns : turns \in [1..n -> RenderTurns]
    /\ label_map \in LabelMaps
    /\ transcript_block = <<>>
    /\ seconds = <<>>
    /\ formatted = <<>>

\* analyze_audio line 283: transcript_block = _render_transcript(turns, label_map)
RenderTranscript ==
    /\ transcript_block = <<>>
    /\ transcript_block' = <<_render_transcript(turns, label_map)>>
    /\ UNCHANGED <<seconds, formatted, turns, label_map, notFmt>>

\* Labels numbered from 0.
LabelMapFromZero(speakers) ==
    [k \in 1..Len(speakers) |-> [speaker_id |-> speakers[k], label |-> k - 1]]

\* A label for the first speaker only.
LabelMapFirstOnly(speakers) ==
    [k \in 1..(IF speakers = <<>> THEN 0 ELSE 1) |-> [speaker_id |-> speakers[k], label |-> k]]

\* Lines 278-281: "Speaker k" for the k-th speaker.
LabelMap(speakers) == [k \in 1..Len(speakers) |-> [speaker_id |-> speakers[k], label |-> k]]

\* Lines 272-283: the word events of a transcription grouped into turns, the
\* speakers labelled and the transcript rendered.
BuildTranscript ==
    /\ grouping = <<>>
    /\ transcript_block = <<>>
    /\ ~Raises(words)
    /\ LET g == _group_into_turns(words)
       IN /\ wlist' = Processed(words)
          /\ grouping' = <<g>>
          /\ turns' = g.turns
          /\ label_map' = LabelMap(g.speakers)
          /\ transcript_block' = <<_render_transcript(g.turns, LabelMap(g.speakers))>>
    /\ UNCHANGED <<words, group_error, seconds, formatted, clsVars, jsonVars,
                   cloudVars, vxVars, flVars, concVars, raceVars>>

\* Lines 363-371: the entry of a file that was analysed.
ResultEntry(f, p, txt, analysis) ==
    [filename |-> Filename(f), date |-> "today", time |-> "now",
     audio_length |-> p.duration, file_size |-> f.size,
     transcription |-> txt, analysis |-> analysis]

\* Lines 378-385 and 388-395: the entry of a file whose processing raised.
ErrorEntry(f, detail) ==
    [filename |-> Filename(f), error |-> detail, date |-> "today", time |-> "now"]

NoPrompt ==
    [filename |-> "", duration |-> <<>>, turns |-> <<>>, labels |-> <<>>,
     transcript_block |-> <<>>]

\* The record of a stage run for the current file: whether it succeeded and,
\* when it did not, what the service answered (kind, status, body).
Called(stage, ok, cause) ==
    Append(calls, [file |-> file_idx, stage |-> stage, ok |-> ok, cause |-> cause])
\* The answers so far and one more (what the service sent back for the
\* current file).
Answered(stage, a) == Append(answers, [file |-> file_idx, stage |-> stage, answer |-> a])
NoCause == [kind |-> "", status |-> "", body |-> ""]
Cause(kind, status, body) == [kind |-> kind, status |-> status, body |-> body]

CloudIdle ==
    /\ env = [openai |-> FALSE, elevenlabs |-> FALSE]
    /\ files = <<>>
    /\ pc = "idle"
    /\ file_idx = 0
    /\ stt = NoStt
    /\ prompt = NoPrompt
    /\ sentiment_response = <<>>
    /\ results = <<>>
    /\ response = <<>>
    /\ calls = <<>>
    /\ answers = <<>>

ConcIdle == running = 0 /\ suspended = <<>>
RaceIdle == ga_pc = <<>> /\ ga_new = <<>> /\ ga_got = <<>> /\ constructions = 0

CloudInit ==
    /\ env \in [openai : BOOLEAN, elevenlabs : BOOLEAN]
    /\ \E n \in 0..MaxFiles : files \in [1..n -> Uploads]
    /\ pc = "received"
    /\ file_idx = 0
    /\ stt = NoStt
    /\ prompt = NoPrompt
    /\ sentiment_response = <<>>
    /\ results = <<>>
    /\ response = <<>>
    /\ calls = <<>>
    /\ answers = <<>>

HttpError(status, detail) == [status |-> status, detail |-> detail, results |-> <<>>, total_processed |-> 0]

\* The except clauses (lines 376-395) as this dropped entry would leave the
\* results list: nothing recorded for the file.
RecordFailureDropped(detail) == results

\* The except clauses (lines 376-395): the results list with the file's
\* error entry appended.
RecordFailure(detail) == Append(results, ErrorEntry(files[file_idx], detail))

\* Where the loop goes after a file whose processing raised: the stage after
\* the one that failed, as if nothing had been raised.
AfterFailureContinue(stage) ==
    IF stage = "transcription" THEN "prompting"
    ELSE IF stage = "prompt" THEN "awaiting_model"
    ELSE "parsing"

\* Where the loop goes after a file whose processing raised: to the next file.
AfterFailure(stage) == "next_file"

\* transcribe_with_elevenlabs, lines 150-178: the detail of the exception
\* raised for an answer that is no transcription.
SttFailure(a) ==
    IF a.kind = "status"
    THEN "ElevenLabs STT failed (" \o a.status \o "): " \o a.body
    ELSE IF a.kind = "invalid_json"
    THEN "Invalid JSON from ElevenLabs STT"
    ELSE a.body

\* A stage raised: the except clause runs and the loop goes on.
FailFile(stage, detail, cause) ==
    /\ results' = RecordFailure(detail)
    /\ calls' = Called(stage, FALSE, cause)
    /\ pc' = AfterFailure(stage)

\* Lines 183-204: the checks made before the loop.
CloudReceive ==
    /\ pc = "received"
    /\ IF ~env.openai
       THEN /\ response' = <<HttpError(500, "OpenAI API key not configured. Please set OPENAI_API_KEY environment variable.")>>
            /\ pc' = "responded"
       ELSE IF ~env.elevenlabs
       THEN /\ response' = <<HttpError(500, "ElevenLabs API key not configured. Please set ELEVENLABS_API_KEY environment variable.")>>
            /\ pc' = "responded"
       ELSE IF files = <<>>
       THEN /\ response' = <<HttpError(400, "No files provided")>>
            /\ pc' = "responded"
       ELSE /\ response' = response
            /\ pc' = "next_file"
    /\ UNCHANGED <<env, files, file_idx, stt, prompt, sentiment_response, results, calls,
                 answers>>
    /\ UNCHANGED notCloud

\* A file with no filename given an entry like a file that failed.
SkippedFileResultsWithEntry(f) == Append(results, ErrorEntry(f, "no filename"))

\* Lines 249-251: a file with no filename is skipped; the results list stays.
SkippedFileResults(f) == results

\* Lines 244-255: the loop takes the next file, skips it when it has no
\* filename and reads its content otherwise; after the last file it leaves.
CloudNextFile ==
    /\ pc = "next_file"
    /\ file_idx' = file_idx + 1
    /\ IF file_idx + 1 > Len(files)
       THEN pc' = "after_loop" /\ results' = results
       ELSE IF Filename(files[file_idx + 1]) = ""
       THEN pc' = "next_file" /\ results' = SkippedFileResults(files[file_idx + 1])
       ELSE pc' = "transcribing" /\ results' = results
    /\ stt' = NoStt
    /\ prompt' = NoPrompt
    /\ sentiment_response' = <<>>
    /\ UNCHANGED <<env, files, response, calls, answers>>
    /\ UNCHANGED notCloud

\* Lines 257-268 and transcribe_with_elevenlabs: one request to the
\* transcription service.
CloudTranscribe ==
    /\ pc = "transcribing"
    /\ \E a \in SttAnswers :
         /\ answers' = Answered("transcription", a)
         /\ IF a.kind = "ok"
            THEN /\ stt' = a
                 /\ calls' = Called("transcription", TRUE, NoCause)
                 /\ pc' = "prompting"
                 /\ results' = results
            ELSE /\ stt' = stt
                 /\ FailFile("transcription", SttFailure(a), Cause(a.kind, a.status, a.body))
    /\ UNCHANGED <<env, files, file_idx, prompt, sentiment_response, response>>
    /\ UNCHANGED notCloud

\* str(e) of the TypeError that float(None) raises (line 80).
FloatOfNone == "float() argument must be a string or a number, not 'NoneType'"

\* Lines 270-311: what the prompt of a file is built from, given its
\* transcription.
PromptOf(f, a) ==
    LET g == _group_into_turns(a.words)
    IN [filename |-> Filename(f),
        duration |-> _format_hhmmss(<<g.duration>>),
        turns |-> g.turns,
        labels |-> LabelMap(g.speakers),
        transcript_block |-> _render_transcript(g.turns, LabelMap(g.speakers))]

\* Lines 270-311: the turns, the speaker labels and the prompt.
CloudPrompt ==
    /\ pc = "prompting"
    /\ IF stt.null_start
       THEN /\ FailFile("prompt", FloatOfNone, Cause("raise", "", FloatOfNone))
            /\ prompt' = prompt
       ELSE /\ prompt' = PromptOf(files[file_idx], stt)
            /\ calls' = Called("prompt", TRUE, NoCause)
            /\ pc' = "awaiting_model"
            /\ results' = results
    /\ UNCHANGED <<env, files, file_idx, stt, sentiment_response, response, answers>>
    /\ UNCHANGED notCloud

\* Lines 313-344: one request to the generative service, and the text of
\* its response.
CloudGenerate ==
    /\ pc = "awaiting_model"
    /\ \E g \in GenAnswers :
         /\ answers' = Answered("generation", g)
         /\ IF g.kind = "raise"
            THEN /\ FailFile("generation", g.message, Cause("raise", "", g.message))
                 /\ sentiment_response' = sentiment_response
            ELSE IF ResponseText(g) = <<>>
            THEN /\ FailFile("generation", "Empty response from OpenAI", Cause("empty", "", ""))
                 /\ sentiment_response' = sentiment_response
            ELSE /\ sentiment_response' = ResponseText(g)
                 /\ calls' = Called("generation", TRUE, NoCause)
                 /\ pc' = "parsing"
                 /\ results' = results
    /\ UNCHANGED <<env, files, file_idx, stt, prompt, response>>
    /\ UNCHANGED notCloud

\* Lines 348-374: the response parsed and adjusted, the file's entry appended.
CloudParse ==
    /\ pc = "parsing"
    /\ LET data == _safe_parse_json(sentiment_response)
       IN IF data.raised
          THEN FailFile("parsing", "JSONDecodeError", Cause("raise", "", "JSONDecodeError"))
          ELSE /\ results' = Append(results,
                      ResultEntry(files[file_idx], prompt, Strip(stt.text),
                                  AdjustSchema(data.value)))
               /\ calls' = Called("parsing", TRUE, NoCause)
               /\ pc' = "next_file"
    /\ UNCHANGED <<env, files, file_idx, stt, prompt, sentiment_response, response, answers>>
    /\ UNCHANGED notCloud

\* Lines 397-401: the response.
CloudRespond ==
    /\ pc = "after_loop"
    /\ response' =
         IF results = <<>>
         THEN <<HttpError(400, "No files could be processed")>>
         ELSE <<[status |-> 200, detail |-> "", results |-> results,
                 total_processed |-> Len(results)]>>
    /\ pc' = "responded"
    /\ UNCHANGED <<env, files, file_idx, stt, prompt, sentiment_response, results, calls,
                 answers>>
    /\ UNCHANGED notCloud

(***************************************************************************)
(* backend/main.py: two POST /analyze/ requests served together.  Each is  *)
(* a coroutine of analyze_audio on the one event loop: the loop runs one   *)
(* coroutine at a time and switches at an await (file.read and             *)
(* transcribe_with_elevenlabs, lines 254-268) or when the coroutine has    *)
(* returned.  The variables of the handler are the locals of the coroutine *)
(* that runs; the locals of the one that waits are kept in its frame.      *)
(***************************************************************************)
notConc == <<clsVars, grpVars, jsonVars, vxVars, flVars, fmtVars, raceVars>>

\* The locals of the coroutine that runs, as a frame.
Frame ==
    [files |-> files, pc |-> pc, file_idx |-> file_idx, stt |-> stt, prompt |-> prompt,
     sentiment_response |-> sentiment_response, results |-> results,
     response |-> response, calls |-> calls, answers |-> answers]
NewFrame(fs) ==
    [files |-> fs, pc |-> "received", file_idx |-> 0, stt |-> NoStt, prompt |-> NoPrompt,
     sentiment_response |-> <<>>, results |-> <<>>, response |-> <<>>,
     calls |-> <<>>, answers |-> <<>>]

\* The batches of the two requests.
ConcBatches ==
    {<<Upload("a", ".wav", 1)>>,
     <<Upload("", "", 1), Upload("notes", ".txt", 1)>>,
     <<Upload("a", ".wav", 0), Upload("notes", ".txt", 1)>>}

ConcInit ==
    /\ env = [openai |-> TRUE, elevenlabs |-> TRUE]
    /\ running = 1
    /\ \E fs \in ConcBatches :
         /\ files = fs
         /\ \E other \in ConcBatches \ {fs} : suspended = <<NewFrame(other)>>
    /\ pc = "received"
    /\ file_idx = 0
    /\ stt = NoStt
    /\ prompt = NoPrompt
    /\ sentiment_response = <<>>
    /\ results = <<>>
    /\ response = <<>>
    /\ calls = <<>>
    /\ answers = <<>>

\* The results list a resumed coroutine works on if `results` were one list
\* shared by the requests.
ResumedResultsShared(f) == results

\* Line 203, results = []: the list is a local of the coroutine, so a
\* resumed coroutine works on the list of its own frame.
ResumedResults(f) == f.results

\* The event loop switches to the coroutine that waits.
Yield ==
    /\ suspended # <<>>
    /\ pc \in {"transcribing", "responded"}
    /\ suspended[1].pc # "responded"
    /\ files' = suspended[1].files
    /\ pc' = suspended[1].pc
    /\ file_idx' = suspended[1].file_idx
    /\ stt' = suspended[1].stt
    /\ prompt' = suspended[1].prompt
    /\ sentiment_response' = suspended[1].sentiment_response
    /\ results' = ResumedResults(suspended[1])
    /\ response' = suspended[1].response
    /\ calls' = suspended[1].calls
    /\ answers' = suspended[1].answers
    /\ suspended' = <<Frame>>
    /\ running' = IF running = 1 THEN 2 ELSE 1
    /\ UNCHANGED <<env, notConc>>

(***************************************************************************)
(* voxtral/server.py: analyze_audio_file and analyze (POST /api/analyze)   *)
(***************************************************************************)
\* An upload: its MIME type, its filename split into stem and extension, and
\* the number of bytes of its content.
VxUpload(mime, stem, ext, size) ==
    [content_type |-> mime, stem |-> stem, ext |-> ext, size |-> size]
VxUploads ==
    {VxUpload(m, st, e, n) :
        m \in {"", "audio/mpeg", "text/plain"}, st \in {"call"},
        e \in {"", ".WAV", ".txt"}, n \in {0, 1}}

\* str.lower() on the extensions of the model.
Lower(e) == IF e = ".WAV" THEN ".wav" ELSE IF e = ".MP3" THEN ".mp3" ELSE e

\* _AUDIO_EXT_BY_MIME, on the MIME types of the model.
AudioExtByMime(m) == IF m = "audio/mpeg" THEN ".mp3" ELSE ""

\* _infer_suffix
_infer_suffix(u) ==
    IF AudioExtByMime(u.content_type) # "" THEN AudioExtByMime(u.content_type)
    ELSE IF Lower(u.ext) # "" THEN Lower(u.ext)
    ELSE ".wav"

\* The path tempfile.NamedTemporaryFile gives the upload.
VxTmpPath(u) == "tmp" \o _infer_suffix(u)

\* What model.generate can do: raise, or decode to a text.
VxModelTexts ==
    {<<"{", "K", "1", "}">>, <<" ", "{", "K", "1", "}">>,
     <<"x", "{", "K", "1", "}", "x">>, <<"x", "x">>, <<"{", "x", "}">>, <<"1">>}

VxResult(v) == [kind |-> "result", value |-> v]
VxJsonError == [kind |-> "JSONDecodeError", value |-> JNum(0)]
VxError == [kind |-> "Exception", value |-> JNum(0)]
VxNone == [kind |-> "none", value |-> JNum(0)]

\* analyze_audio_file with the fallback of the cloud pipeline's
\* _safe_parse_json in place of the raise.
analyze_audio_file_raw_fallback(decoded) ==
    LET t == Strip(decoded)
    IN IF _safe_parse_json(t).value.kind = "object"
       THEN VxResult(_safe_parse_json(t).value)
       ELSE VxResult(RawResponse(t))

\* analyze_audio_file, lines 221-233, on the text the model decoded to.
analyze_audio_file(decoded) ==
    LET t == Strip(decoded)
    IN IF Loads(t).ok THEN VxResult(Loads(t).value)
       ELSE LET start == Find(t, "{")
                end == RFind(t, "}")
            IN IF start # -1 /\ end # -1 /\ end > start
               THEN IF Loads(Slice(t, start, end + 1)).ok
                    THEN VxResult(Loads(Slice(t, start, end + 1)).value)
                    ELSE VxJsonError
               ELSE VxJsonError

VxHttp(status, detail, body) == [status |-> status, detail |-> detail, body |-> body]

VxIdle ==
    /\ MODEL_LOAD_ERR = FALSE
    /\ vx_file = VxUpload("", "", "", 0)
    /\ vx_pc = "idle"
    /\ vx_disk = {}
    /\ vx_decoded = <<>>
    /\ vx_outcome = VxNone
    /\ vx_response = <<>>

VxInit ==
    /\ MODEL_LOAD_ERR \in BOOLEAN
    /\ vx_file \in VxUploads
    /\ vx_pc = "received"
    /\ vx_disk = {}
    /\ vx_decoded = <<>>
    /\ vx_outcome = VxNone
    /\ vx_response = <<>>

\* Lines 276-284: the model check, then the temporary file is created
\* (delete=False) under the inferred suffix.
VxOpenTemp ==
    /\ vx_pc = "received"
    /\ IF MODEL_LOAD_ERR
       THEN /\ vx_response' = <<VxHttp(500, "Model not available", JNum(0))>>
            /\ vx_pc' = "responded"
            /\ vx_disk' = vx_disk
       ELSE /\ vx_disk' = vx_disk \cup {VxTmpPath(vx_file)}
            /\ vx_pc' = "tmp_open"
            /\ vx_response' = vx_response
    /\ UNCHANGED <<MODEL_LOAD_ERR, vx_file, vx_decoded, vx_outcome>>
    /\ UNCHANGED notVx

\* Lines 285-289: the content is read inside the with block; an empty
\* content raises HTTPException(400), which leaves the with block (the file
\* is closed, not deleted) and is re-raised at line 301.
VxReadContent ==
    /\ vx_pc = "tmp_open"
    /\ IF vx_file.size = 0
       THEN /\ vx_response' = <<VxHttp(400, "Empty file", JNum(0))>>
            /\ vx_pc' = "responded"
       ELSE /\ vx_response' = vx_response
            /\ vx_pc' = "saved"
    /\ UNCHANGED <<MODEL_LOAD_ERR, vx_file, vx_disk, vx_decoded, vx_outcome>>
    /\ UNCHANGED notVx

\* Line 292: analyze_audio_file(tmp_path) returns or raises.
VxAnalyze ==
    /\ vx_pc = "saved"
    /\ \/ /\ vx_outcome' = VxError
          /\ vx_decoded' = vx_decoded
       \/ \E t \in VxModelTexts :
            /\ vx_decoded' = <<t>>
            /\ vx_outcome' = analyze_audio_file(t)
    /\ vx_pc' = "finally"
    /\ UNCHANGED <<MODEL_LOAD_ERR, vx_file, vx_disk, vx_response>>
    /\ UNCHANGED notVx

\* Lines 293-297: tmp_path.unlink(missing_ok=True)
VxUnlink ==
    /\ vx_pc = "finally"
    /\ vx_disk' = vx_disk \ {VxTmpPath(vx_file)}
    /\ vx_pc' = "unlinked"
    /\ UNCHANGED <<MODEL_LOAD_ERR, vx_file, vx_decoded, vx_outcome, vx_response>>
    /\ UNCHANGED notVx

\* Lines 299-305: the result, or the response of the except clause.
VxRespond ==
    /\ vx_pc = "unlinked"
    /\ vx_response' =
         IF vx_outcome.kind = "result" THEN <<VxHttp(200, "", vx_outcome.value)>>
         ELSE IF vx_outcome.kind = "JSONDecodeError"
         THEN <<VxHttp(502, "Model produced invalid JSON", JNum(0))>>
         ELSE <<VxHttp(500, "Analysis failed", JNum(0))>>
    /\ vx_pc' = "responded"
    /\ UNCHANGED <<MODEL_LOAD_ERR, vx_file, vx_disk, vx_decoded, vx_outcome>>
    /\ UNCHANGED notVx

(***************************************************************************)
(* voice_sentiment.py: text_to_sentiment and analyze_call                  *)
(***************************************************************************)
\* label_map of text_to_sentiment, with the label itself as the default.
StarLabel(label) ==
    IF label \in {"1 star", "2 stars"} THEN "NEGATIVE"
    ELSE IF label = "3 stars" THEN "NEUTRAL"
    ELSE IF label \in {"4 stars", "5 stars"} THEN "POSITIVE"
    ELSE label

\* text_to_sentiment: no model call for an empty text.
text_to_sentiment(transcription, label, sc) ==
    IF transcription = "" THEN [sentiment |-> "NEUTRAL", score |-> 0]
    ELSE [sentiment |-> StarLabel(label), score |-> sc]

\* analyze_call, on what the two models answered for the file.
analyze_call(transcription, label, sc) ==
    LET sentiment_result == text_to_sentiment(transcription, label, sc)
    IN [transcription |-> transcription,
        sentiment |-> sentiment_result.sentiment,
        score |-> sentiment_result.score,
        satisfaction |-> classify_satisfaction(sentiment_result.sentiment,
                                               sentiment_result.score)]

\* What the speech and sentiment models can answer for a file.
Transcriptions == {"", "thank you"}
StarLabels == {"1 star", "3 stars", "5 stars"}
StarScores == {Threshold, Threshold + 1}
Analyses ==
    {analyze_call(t, l, sc) :
        t \in Transcriptions, l \in StarLabels, sc \in StarScores}

(***************************************************************************)
(* api.py: get_analyzer, analyze_audio and analyze_batch                   *)
(***************************************************************************)
\* An uploaded file: its filename split as os.path.splitext splits it.
FlUpload(stem, ext) == [stem |-> stem, ext |-> ext]
FlFilename(f) == f.stem \o f.ext
FlUploads ==
    {FlUpload("", ""), FlUpload("a", ".wav"), FlUpload("b", ".MP3"),
     FlUpload("notes", ".txt")}

allowed_extensions == {".wav", ".mp3", ".m4a", ".flac"}
file_ext(f) == Lower(f.ext)

\* temp_filename of the two handlers; the uuid is the same within a request.
SingleTempPath(f) == [prefix |-> "temp_audio", i |-> 0, ext |-> file_ext(f)]
BatchTempPath(i, f) == [prefix |-> "batch", i |-> i, ext |-> file_ext(f)]

FlHttp(status, error, body) == [status |-> status, error |-> error, body |-> body]
NoBody == <<>>

\* The entries of the batch's results list.
FlSuccessEntry(f, r) ==
    [filename |-> FlFilename(f), transcription |-> r.transcription,
     sentiment |-> r.sentiment, confidence_score |-> r.score,
     satisfaction |-> r.satisfaction, success |-> TRUE]
FlErrorEntry(f) ==
    [filename |-> FlFilename(f),
     error |-> "Unsupported format: " \o file_ext(f), success |-> FALSE]

\* Lines 454-488: the counts of the batch response.
successful_results(rs) == SelectSeq(rs, LAMBDA r : r.success)
total_uploaded(fs) == Len(SelectSeq(fs, LAMBDA f : FlFilename(f) # ""))
BatchBody(rs, fs) ==
    <<[success |-> TRUE, total_files |-> Len(successful_results(rs)),
       results |-> rs, processed_files |-> Len(successful_results(rs)),
       total_uploaded |-> total_uploaded(fs)]>>

FlIdle ==
    /\ analyzer = "None"
    /\ endpoint = "none"
    /\ audio_files = <<>>
    /\ fl_pc = "idle"
    /\ fl_i = 0
    /\ temp_files = <<>>
    /\ fl_disk = {}
    /\ fl_results = <<>>
    /\ fl_raised = ""
    /\ fl_response = <<>>

FlInit ==
    /\ analyzer \in {"None", "instance"}
    /\ endpoint \in {"single", "batch"}
    /\ \E n \in 0..MaxFiles : audio_files \in [1..n -> FlUploads]
    /\ fl_pc = "received"
    /\ fl_i = 0
    /\ temp_files = <<>>
    /\ fl_disk = {}
    /\ fl_results = <<>>
    /\ fl_raised = ""
    /\ fl_response = <<>>

\* get_analyzer and analyze_call on the saved file: the constructor can
\* raise when there is no instance yet, analyze_call can raise, or there is
\* a result.  Each outcome names the global analyzer afterwards.
AnalyzerOutcome(a, raised, result) ==
    [analyzer |-> a, raised |-> raised, result |-> result]
RunAnalyzer(a) ==
    (IF a = "None" THEN {AnalyzerOutcome(a, "model load failed", <<>>)} ELSE {})
    \cup {AnalyzerOutcome("instance", "audio could not be read", <<>>)}
    \cup {AnalyzerOutcome("instance", "", <<r>>) : r \in Analyses}

\* analyze_audio, lines 320-351: the checks, then the file is saved.
FlSingleReceive ==
    /\ endpoint = "single" /\ fl_pc = "received"
    /\ IF audio_files = <<>>
       THEN /\ fl_response' = <<FlHttp(400, "No audio file provided", NoBody)>>
            /\ fl_pc' = "responded"
            /\ UNCHANGED <<temp_files, fl_disk>>
       ELSE IF FlFilename(audio_files[1]) = ""
       THEN /\ fl_response' = <<FlHttp(400, "No file selected", NoBody)>>
            /\ fl_pc' = "responded"
            /\ UNCHANGED <<temp_files, fl_disk>>
       ELSE IF file_ext(audio_files[1]) \notin allowed_extensions
       THEN /\ fl_response' = <<FlHttp(400, "Unsupported file format", NoBody)>>
            /\ fl_pc' = "responded"
            /\ UNCHANGED <<temp_files, fl_disk>>
       ELSE /\ temp_files' = <<SingleTempPath(audio_files[1])>>
            /\ fl_disk' = fl_disk \cup {SingleTempPath(audio_files[1])}
            /\ fl_pc' = "saved"
            /\ fl_response' = fl_response
    /\ UNCHANGED <<analyzer, endpoint, audio_files, fl_i, fl_results, fl_raised>>
    /\ UNCHANGED notFl

\* Lines 355-356: the analysis returns or raises.
FlSingleAnalyze ==
    /\ endpoint = "single" /\ fl_pc = "saved"
    /\ \E o \in RunAnalyzer(analyzer) :
         /\ analyzer' = o.analyzer
         /\ fl_raised' = o.raised
         /\ fl_results' =
              IF o.raised = ""
              THEN <<FlSuccessEntry(audio_files[1], o.result[1])>>
              ELSE fl_results
    /\ fl_pc' = "cleanup"
    /\ UNCHANGED <<endpoint, audio_files, fl_i, temp_files, fl_disk, fl_response>>
    /\ UNCHANGED notFl

\* analyze_audio with no removal in the except clause.
SingleRemovedOnSuccessOnly(paths, raised) ==
    IF raised = "" THEN {paths[k] : k \in 1..Len(paths)} ELSE {}

\* The paths analyze_audio removes: line 359 after a result, lines 376-377
\* after an exception.
SingleRemoved(paths, raised) ==
    IF raised = "" THEN {paths[k] : k \in 1..Len(paths)}
    ELSE {paths[k] : k \in 1..Len(paths)} \cap fl_disk

\* Lines 359 and 374-378.
FlSingleCleanup ==
    /\ endpoint = "single" /\ fl_pc = "cleanup"
    /\ fl_disk' = fl_disk \ SingleRemoved(temp_files, fl_raised)
    /\ fl_pc' = "cleaned"
    /\ UNCHANGED <<analyzer, endpoint, audio_files, fl_i, temp_files,
                   fl_results, fl_raised, fl_response>>
    /\ UNCHANGED notFl

\* Lines 362-372 and 380-385.
FlSingleRespond ==
    /\ endpoint = "single" /\ fl_pc = "cleaned"
    /\ fl_response' =
         IF fl_raised = ""
         THEN <<FlHttp(200, "", <<[success |-> TRUE, data |-> fl_results[1]]>>)>>
         ELSE <<FlHttp(500, "Processing failed", <<[message |-> fl_raised]>>)>>
    /\ fl_pc' = "responded"
    /\ UNCHANGED <<analyzer, endpoint, audio_files, fl_i, temp_files, fl_disk,
                   fl_results, fl_raised>>
    /\ UNCHANGED notFl

\* analyze_batch, lines 397-413.
FlBatchReceive ==
    /\ endpoint = "batch" /\ fl_pc = "received"
    /\ IF audio_files = <<>>
       THEN /\ fl_response' = <<FlHttp(400, "No audio files provided", NoBody)>>
            /\ fl_pc' = "responded"
            /\ fl_i' = fl_i
       ELSE IF \A k \in 1..Len(audio_files) : FlFilename(audio_files[k]) = ""
       THEN /\ fl_response' = <<FlHttp(400, "No files selected", NoBody)>>
            /\ fl_pc' = "responded"
            /\ fl_i' = fl_i
       ELSE /\ fl_pc' = "loop"
            /\ fl_i' = 1
            /\ fl_response' = fl_response
    /\ UNCHANGED <<analyzer, endpoint, audio_files, temp_files, fl_disk,
                   fl_results, fl_raised>>
    /\ UNCHANGED notFl

\* Lines 417-438: the loop head, up to the save of a file that passes.
FlBatchNextFile ==
    /\ endpoint = "batch" /\ fl_pc = "loop"
    /\ IF fl_i > Len(audio_files)
       THEN /\ fl_pc' = "statistics"
            /\ UNCHANGED <<fl_i, temp_files, fl_disk, fl_results>>
       ELSE IF FlFilename(audio_files[fl_i]) = ""
       THEN /\ fl_i' = fl_i + 1
            /\ UNCHANGED <<fl_pc, temp_files, fl_disk, fl_results>>
       ELSE IF file_ext(audio_files[fl_i]) \notin allowed_extensions
       THEN /\ fl_results' = Append(fl_results, FlErrorEntry(audio_files[fl_i]))
            /\ fl_i' = fl_i + 1
            /\ UNCHANGED <<fl_pc, temp_files, fl_disk>>
       ELSE /\ temp_files' =
                 Append(temp_files, BatchTempPath(fl_i - 1, audio_files[fl_i]))
            /\ fl_disk' =
                 fl_disk \cup {BatchTempPath(fl_i - 1, audio_files[fl_i])}
            /\ fl_pc' = "saved"
            /\ UNCHANGED <<fl_i, fl_results>>
    /\ UNCHANGED <<analyzer, endpoint, audio_files, fl_raised, fl_response>>
    /\ UNCHANGED notFl

\* Lines 441-451: a result is appended; an exception leaves the loop for
\* the finally clause.
FlBatchAnalyze ==
    /\ endpoint = "batch" /\ fl_pc = "saved"
    /\ \E o \in RunAnalyzer(analyzer) :
         /\ analyzer' = o.analyzer
         /\ fl_raised' = o.raised
         /\ IF o.raised = ""
            THEN /\ fl_results' =
                      Append(fl_results,
                             FlSuccessEntry(audio_files[fl_i], o.result[1]))
                 /\ fl_i' = fl_i + 1
                 /\ fl_pc' = "loop"
            ELSE /\ fl_pc' = "finally"
                 /\ UNCHANGED <<fl_i, fl_results>>
    /\ UNCHANGED <<endpoint, audio_files, temp_files, fl_disk, fl_response>>
    /\ UNCHANGED notFl

\* Lines 454-489: the statistics and the body of the response, which is
\* returned through the finally clause.
FlBatchStatistics ==
    /\ endpoint = "batch" /\ fl_pc = "statistics"
    /\ fl_response' = <<FlHttp(200, "", BatchBody(fl_results, audio_files))>>
    /\ fl_pc' = "finally"
    /\ UNCHANGED <<analyzer, endpoint, audio_files, fl_i, temp_files, fl_disk,
                   fl_results, fl_raised>>
    /\ UNCHANGED notFl

\* The paths the finally clause of analyze_batch removes, lines 493-495.
BatchRemoved(paths) == {paths[k] : k \in 1..Len(paths)}

\* Lines 491-502: the finally clause, then the response goes out: the one
\* prepared, or the 500 of the outer except clause.
FlBatchFinally ==
    /\ endpoint = "batch" /\ fl_pc = "finally"
    /\ fl_disk' = fl_disk \ BatchRemoved(temp_files)
    /\ fl_response' =
         IF fl_raised = "" THEN fl_response
         ELSE <<FlHttp(500, "Batch processing failed", <<[message |-> fl_raised]>>)>>
    /\ fl_pc' = "responded"
    /\ UNCHANGED <<analyzer, endpoint, audio_files, fl_i, temp_files,
                   fl_results, fl_raised>>
    /\ UNCHANGED notFl

(***************************************************************************)
(* api.py: get_analyzer, lines 26-33, as the threads of concurrent         *)
(* requests run it (app.run serves each request in a thread of its own).   *)
(* An instance is named after the construction that made it.               *)
(***************************************************************************)
notRace == <<clsVars, grpVars, jsonVars, cloudVars, vxVars, fmtVars, concVars>>
Threads == 1..MaxThreads
InstanceName(k) == "instance_" \o ToString(k)

RaceInit ==
    /\ ga_pc = [t \in Threads |-> "call"]
    /\ ga_new = [t \in Threads |-> None]
    /\ ga_got = [t \in Threads |-> None]
    /\ constructions = 0

\* Line 29: if analyzer is None
GetAnalyzerCheck ==
    /\ \E t \in Threads :
         /\ ga_pc[t] = "call"
         /\ ga_pc' = [ga_pc EXCEPT ![t] = IF analyzer = None THEN "construct" ELSE "return"]
    /\ UNCHANGED <<ga_new, ga_got, constructions, flVars, notRace>>

\* Line 31, the call: VoiceSentimentAnalyzer() loads the models and returns
\* a new instance, or raises.
GetAnalyzerConstruct ==
    /\ \E t \in Threads :
         /\ ga_pc[t] = "construct"
         /\ \/ /\ constructions' = constructions + 1
               /\ ga_new' = [ga_new EXCEPT ![t] = InstanceName(constructions + 1)]
               /\ ga_pc' = [ga_pc EXCEPT ![t] = "assign"]
            \/ /\ ga_pc' = [ga_pc EXCEPT ![t] = "raised"]
               /\ UNCHANGED <<ga_new, constructions>>
    /\ UNCHANGED <<ga_got, flVars, notRace>>

\* Line 31, the assignment: analyzer = <the new instance>
GetAnalyzerAssign ==
    /\ \E t \in Threads :
         /\ ga_pc[t] = "assign"
         /\ analyzer' = ga_new[t]
         /\ ga_pc' = [ga_pc EXCEPT ![t] = "return"]
    /\ UNCHANGED <<ga_new, ga_got, constructions, endpoint, audio_files, fl_pc, fl_i,
                   temp_files, fl_disk, fl_results, fl_raised, fl_response, notRace>>

\* Line 33: return analyzer
GetAnalyzerReturn ==
    /\ \E t \in Threads :
         /\ ga_pc[t] = "return"
         /\ ga_got' = [ga_got EXCEPT ![t] = analyzer]
         /\ ga_pc' = [ga_pc EXCEPT ![t] = "done"]
    /\ UNCHANGED <<ga_new, constructions, flVars, notRace>>

(***************************************************************************)
(* Specifications                                                          *)
(***************************************************************************)
InitClassify == ClsInit /\ GrpIdle /\ JsonIdle /\ CloudIdle /\ FmtIdle /\ VxIdle /\ FlIdle
    /\ ConcIdle /\ RaceIdle
NextClassify == Classify
SpecClassify == InitClassify /\ [][NextClassify]_vars

InitTurns == GrpInit /\ ClsIdle /\ JsonIdle /\ CloudIdle /\ FmtIdle /\ VxIdle /\ FlIdle
    /\ ConcIdle /\ RaceIdle
NextTurns == GroupIntoTurns
SpecTurns == InitTurns /\ [][NextTurns]_vars

InitLooseTurns == LooseInit /\ ClsIdle /\ JsonIdle /\ CloudIdle /\ FmtIdle /\ VxIdle /\ FlIdle
    /\ ConcIdle /\ RaceIdle
NextLooseTurns == GroupIntoTurns
SpecLooseTurns == InitLooseTurns /\ [][NextLooseTurns]_vars

InitMalformedTurns ==
    MalformedInit /\ ClsIdle /\ JsonIdle /\ CloudIdle /\ FmtIdle /\ VxIdle /\ FlIdle
    /\ ConcIdle /\ RaceIdle
NextMalformedTurns == GroupIntoTurns \/ GroupIntoTurnsRaises
SpecMalformedTurns == InitMalformedTurns /\ [][NextMalformedTurns]_vars

InitTranscript == LooseInit /\ ClsIdle /\ JsonIdle /\ CloudIdle /\ FmtIdle /\ VxIdle /\ FlIdle
    /\ ConcIdle /\ RaceIdle
NextTranscript == BuildTranscript
SpecTranscript == InitTranscript /\ [][NextTranscript]_vars

InitConcurrent ==
    ConcInit /\ ClsIdle /\ GrpIdle /\ JsonIdle /\ FmtIdle /\ VxIdle /\ FlIdle /\ RaceIdle
NextConcurrent ==
    \/ CloudReceive
    \/ CloudNextFile
    \/ CloudTranscribe
    \/ CloudPrompt
    \/ CloudGenerate
    \/ CloudParse
    \/ CloudRespond
    \/ Yield
SpecConcurrent == InitConcurrent /\ [][NextConcurrent]_vars

InitAnalyzer ==
    RaceInit /\ FlIdle /\ ClsIdle /\ GrpIdle /\ JsonIdle /\ CloudIdle /\ FmtIdle /\ VxIdle
    /\ ConcIdle
NextAnalyzer ==
    \/ GetAnalyzerCheck
    \/ GetAnalyzerConstruct
    \/ GetAnalyzerAssign
    \/ GetAnalyzerReturn
SpecAnalyzer == InitAnalyzer /\ [][NextAnalyzer]_vars

InitFormat ==
    FormatInit /\ ClsIdle /\ GrpIdle /\ JsonIdle /\ CloudIdle /\ VxIdle /\ FlIdle
    /\ ConcIdle /\ RaceIdle
NextFormat == FormatHhmmss
SpecFormat == InitFormat /\ [][NextFormat]_vars

InitRender ==
    RenderInit /\ ClsIdle /\ GrpIdle /\ JsonIdle /\ CloudIdle /\ VxIdle /\ FlIdle
    /\ ConcIdle /\ RaceIdle
NextRender == RenderTranscript
SpecRender == InitRender /\ [][NextRender]_vars

InitJson ==
    /\ \E n \in 0..MaxTextLen : text \in [1..n -> JsonChars]
    /\ parsed = <<>>
    /\ sentiment_data = <<>>
    /\ ClsIdle /\ GrpIdle /\ CloudIdle /\ FmtIdle /\ VxIdle /\ FlIdle /\ ConcIdle /\ RaceIdle
NextJson == SafeParseJson
SpecJson == InitJson /\ [][NextJson]_vars

InitSchema ==
    /\ \E n \in 0..MaxKeys : \E ks \in [1..n -> KeyTokens] :
         \E variant \in SchemaVariants : text = SchemaText(variant, ks)
    /\ parsed = <<>>
    /\ sentiment_data = <<>>
    /\ ClsIdle /\ GrpIdle /\ CloudIdle /\ FmtIdle /\ VxIdle /\ FlIdle /\ ConcIdle /\ RaceIdle
NextSchema ==
    \/ SafeParseJson
    \/ EnforceSchema
SpecSchema == InitSchema /\ [][NextSchema]_vars

InitCloud ==
    CloudInit /\ ClsIdle /\ GrpIdle /\ JsonIdle /\ FmtIdle /\ VxIdle /\ FlIdle
    /\ ConcIdle /\ RaceIdle
NextCloud ==
    \/ CloudReceive
    \/ CloudNextFile
    \/ CloudTranscribe
    \/ CloudPrompt
    \/ CloudGenerate
    \/ CloudParse
    \/ CloudRespond
SpecCloud == InitCloud /\ [][NextCloud]_vars

InitVoxtral == VxInit /\ ClsIdle /\ GrpIdle /\ JsonIdle /\ CloudIdle /\ FmtIdle /\ FlIdle
    /\ ConcIdle /\ RaceIdle
NextVoxtral ==
    \/ VxOpenTemp
    \/ VxReadContent
    \/ VxAnalyze
    \/ VxUnlink
    \/ VxRespond
SpecVoxtral == InitVoxtral /\ [][NextVoxtral]_vars

InitFlask == FlInit /\ ClsIdle /\ GrpIdle /\ JsonIdle /\ CloudIdle /\ FmtIdle /\ VxIdle
    /\ ConcIdle /\ RaceIdle
NextFlask ==
    \/ FlSingleReceive
    \/ FlSingleAnalyze
    \/ FlSingleCleanup
    \/ FlSingleRespond
    \/ FlBatchReceive
    \/ FlBatchNextFile
    \/ FlBatchAnalyze
    \/ FlBatchStatistics
    \/ FlBatchFinally
SpecFlask == InitFlask /\ [][NextFlask]_vars

(***************************************************************************)
(* C1: classify_satisfaction returns "Satisfied" exactly when the          *)
(* sentiment is POSITIVE and the score is above 0.7, "Dissatisfied"        *)
(* exactly when it is NEGATIVE and the score is above 0.7, and "Neutral"   *)
(* for every other pair; the comparison is strict: POSITIVE at 0.70 is     *)
(* "Neutral" and POSITIVE at 0.71 is "Satisfied".                          *)
(***************************************************************************)
C1_Classification ==
    satisfaction # None =>
        /\ satisfaction \in {"Satisfied", "Dissatisfied", "Neutral"}
        /\ (satisfaction = "Satisfied") <=> (sentiment = "POSITIVE" /\ score > 70)
        /\ (satisfaction = "Dissatisfied") <=> (sentiment = "NEGATIVE" /\ score > 70)
        /\ (sentiment = "POSITIVE" /\ score = 70) => satisfaction = "Neutral"
        /\ (sentiment = "POSITIVE" /\ score = 71) => satisfaction = "Satisfied"

\* POSITIVE at exactly 0.70 has been classified.
C1_Witness == sentiment = "POSITIVE" /\ score = 70 /\ satisfaction = "Neutral"

(***************************************************************************)
(* What the claims about _group_into_turns are stated over: the processed  *)
(* words that carry text, and their runs of one speaker, by index.         *)
(***************************************************************************)
HasText(w) == Strip(Get(w, "text", <<>>)) # <<>>

\* The processed words whose trimmed text is not empty.
Spoken(ws) == SelectSeq(Processed(ws), HasText)

\* The indices at which a new speaker begins.
RunStarts(P) ==
    {i \in 1..Len(P) : i = 1 \/ WordSpeaker(P[i]) # WordSpeaker(P[i - 1])}

\* The k-th index of RunStarts, counting from 1.
KthRunStart(P, k) ==
    CHOOSE i \in RunStarts(P) : Cardinality({j \in RunStarts(P) : j < i}) = k - 1

\* The last index of the run that starts at i.
RunEnd(P, i) ==
    CHOOSE j \in i..Len(P) :
        /\ \A m \in i..j : WordSpeaker(P[m]) = WordSpeaker(P[i])
        /\ j = Len(P) \/ WordSpeaker(P[j + 1]) # WordSpeaker(P[i])

\* The trimmed texts of P[i..j] joined by single spaces.
RECURSIVE JoinTrimmed(_, _, _)
JoinTrimmed(P, i, j) ==
    IF i = j THEN Strip(P[i].text)
    ELSE JoinTrimmed(P, i, j - 1) \o <<" ">> \o Strip(P[j].text)

Word(s, a, b, x) == [type |-> "word", speaker_id |-> s, start |-> a, end |-> b, text |-> x]
Turn(s, a, b, x) == [speaker_id |-> s, start |-> a, end |-> b, text |-> x]

(***************************************************************************)
(* C2: the turns returned by _group_into_turns are exactly the maximal     *)
(* runs of consecutive same-speaker words, in processing order and         *)
(* ignoring empty-text words: adjacent turns differ in speaker, a turn's   *)
(* text is the single-space join of its words' trimmed texts, its start is *)
(* its first word's start and its end is its last word's end.              *)
(***************************************************************************)
C2_TurnsAreMaximalRuns ==
    grouping # <<>> =>
        LET T == grouping[1].turns
            P == Spoken(words)
        IN  /\ Len(T) = Cardinality(RunStarts(P))
            /\ \A k \in 1..Len(T) :
                 LET i == KthRunStart(P, k)
                     j == RunEnd(P, i)
                 IN  /\ T[k].speaker_id = WordSpeaker(P[i])
                     /\ T[k].start = P[i].start
                     /\ T[k].end = P[j].end
                     /\ T[k].text = JoinTrimmed(P, i, j)
            /\ \A k \in 2..Len(T) : T[k].speaker_id # T[k - 1].speaker_id

\* The example of the claim, in ticks: two words of one speaker, then one of
\* another, grouped into two turns.
C2_Witness ==
    /\ words = <<Word("speaker_0", 0, 1, <<"h", "i">>),
                 Word("speaker_0", 1, 2, <<" ", "y", "o", " ">>),
                 Word("speaker_1", 2, 3, <<"h", "i">>)>>
    /\ grouping # <<>>
    /\ grouping[1].turns = <<Turn("speaker_0", 0, 2, <<"h", "i", " ", "y", "o">>),
                             Turn("speaker_1", 2, 3, <<"h", "i">>)>>

(***************************************************************************)
(* C3: a word whose trimmed text is empty never starts, extends or closes  *)
(* a turn, even when its speaker differs from the open turn's speaker: the *)
(* turns are those of the input without its empty-text words.  Its end     *)
(* still counts toward the duration.  The claim's example gives one turn   *)
(* over the whole range.                                                   *)
(***************************************************************************)
C3_EmptyWordsKeepTurns ==
    grouping # <<>> =>
        /\ grouping[1].turns = _group_into_turns(SelectSeq(words, HasText)).turns
        /\ \A i \in 1..Len(words) : grouping[1].duration >= words[i].end
        /\ words = <<Word("speaker_0", 0, 1, <<"h", "i">>),
                     Word("speaker_0", 1, 2, <<>>),
                     Word("speaker_0", 2, 3, <<" ", "y", "o", " ">>)>>
             => /\ grouping[1].turns =
                     <<Turn("speaker_0", 0, 3, <<"h", "i", " ", "y", "o">>)>>
                /\ grouping[1].duration = 3

\* A blank word of the other speaker between two words of one speaker, and
\* an empty word of the other speaker after them: one turn, which ends with
\* its last spoken word, and the duration is the end of the empty word.
C3_Witness ==
    /\ words = <<Word("speaker_0", 0, 1, <<"h", "i">>),
                 Word("speaker_1", 0, 1, <<" ">>),
                 Word("speaker_0", 1, 2, <<"h", "i">>)>>
    /\ grouping # <<>>
    /\ grouping[1].turns = <<Turn("speaker_0", 0, 2, <<"h", "i", " ", "h", "i">>)>>
    /\ grouping[1].speakers = <<"speaker_0", "speaker_1">>

(***************************************************************************)
(* C4: _safe_parse_json never raises and applies three attempts in order,  *)
(* the first success winning: the whole text as JSON; otherwise the        *)
(* substring from the first "{" to the last "}" inclusive; otherwise       *)
(* {"raw_response": text} with the text unchanged.  Prose around an object *)
(* yields the object, and a text with no JSON yields the raw response.     *)
(***************************************************************************)
FirstBrace(t) == CHOOSE i \in 1..Len(t) : t[i] = "{" /\ \A j \in 1..Len(t) : t[j] = "{" => i <= j
LastBrace(t) == CHOOSE i \in 1..Len(t) : t[i] = "}" /\ \A j \in 1..Len(t) : t[j] = "}" => j <= i
HasBraces(t) == (\E i \in 1..Len(t) : t[i] = "{") /\ (\E i \in 1..Len(t) : t[i] = "}")
BraceSpan(t) == SubSeq(t, FirstBrace(t), LastBrace(t))

C4_SafeParseAttempts ==
    parsed # <<>> =>
        /\ ~parsed[1].raised
        /\ Loads(text).ok => parsed[1].value = Loads(text).value
        /\ (~Loads(text).ok /\ HasBraces(text) /\ Loads(BraceSpan(text)).ok)
             => parsed[1].value = Loads(BraceSpan(text)).value
        /\ (~Loads(text).ok /\ ~(HasBraces(text) /\ Loads(BraceSpan(text)).ok))
             => parsed[1].value = RawResponse(text)
        /\ text = <<"x", "{", "K", "1", "}", "x">>
             => parsed[1].value = JObj(<<[key |-> "a", value |-> JNum(1)]>>)
        /\ text = <<"x", "x", " ", "x">> => parsed[1].value = RawResponse(text)

\* Prose around an object: the first attempt fails and the second recovers it.
C4_Witness ==
    /\ text = <<"x", "{", "K", "1", "}", "x">>
    /\ parsed # <<>>
    /\ ~Loads(text).ok
    /\ parsed[1].value = JObj(<<[key |-> "a", value |-> JNum(1)]>>)

(***************************************************************************)
(* What the claims about POST /analyze/ are stated over.                   *)
(***************************************************************************)
Named(i) == Filename(files[i]) # ""

\* The number of files with a filename among the first i.
NamedUpTo(i) == Cardinality({j \in 1..i : Named(j)})

\* File i is behind the loop.
Finished(i) == i < file_idx \/ (i = file_idx /\ pc = "next_file")

\* The stages run for file i, in the order they ran.
StagesOf(i) == SelectSeq(calls, LAMBDA c : c.file = i)

Pipeline == <<"transcription", "prompt", "generation", "parsing">>

IsFailed(e) == "error" \in DOMAIN e
IsDegraded(e) ==
    /\ "analysis" \in DOMAIN e
    /\ e.analysis.kind = "object"
    /\ HasKey(e.analysis.items, "raw_response")
IsDone(e) == "analysis" \in DOMAIN e /\ ~IsDegraded(e)

(***************************************************************************)
(* C5: for each file the handler processes, the stages run in the order    *)
(* transcription, prompt assembly, generation call, JSON parsing, each at  *)
(* most once; a stage that fails is the last stage of its file, so the     *)
(* generative service is never called for a file whose transcription       *)
(* failed; and the file ends in exactly one of DONE, DEGRADED              *)
(* (raw_response) or FAILED.                                               *)
(***************************************************************************)
C5_StagesInOrderOnce ==
    \A i \in 1..Len(files) :
        LET S == StagesOf(i)
        IN  /\ Len(S) <= Len(Pipeline)
            /\ \A k \in 1..Len(S) : S[k].stage = Pipeline[k]
            /\ \A k \in 1..(Len(S) - 1) : S[k].ok
            /\ (S # <<>> /\ ~S[1].ok) => \A c \in 1..Len(calls) :
                   calls[c].file = i => calls[c].stage # "generation"
            /\ (Finished(i) /\ Named(i)) =>
                 /\ NamedUpTo(i) <= Len(results)
                 /\ LET e == results[NamedUpTo(i)]
                    IN  /\ Cardinality({o \in {"DONE", "DEGRADED", "FAILED"} :
                              \/ o = "DONE" /\ IsDone(e)
                              \/ o = "DEGRADED" /\ IsDegraded(e)
                              \/ o = "FAILED" /\ IsFailed(e)}) = 1
                        /\ IsFailed(e) <=> (S # <<>> /\ ~S[Len(S)].ok)
                        /\ ~IsFailed(e) => Len(S) = Len(Pipeline)

\* A batch in which the transcription of the first file failed and the second
\* file went through all four stages to a degraded result.
C5_Witness ==
    /\ pc = "responded"
    /\ Len(files) = 2
    /\ Len(StagesOf(1)) = 1 /\ ~StagesOf(1)[1].ok
    /\ Len(StagesOf(2)) = 4
    /\ Len(results) = 2
    /\ IsFailed(results[1])
    /\ IsDegraded(results[2])

(***************************************************************************)
(* C6: a failure while processing one file (the transcription service      *)
(* unreachable, timed out or answering non-200, the generation call        *)
(* raising or returning empty text) is recorded as an entry of the results *)
(* list with that file's filename and the error detail (for non-200, the   *)
(* upstream status and body), and every later file of the batch is still   *)
(* processed and has its entry in the same response.                       *)
(***************************************************************************)
C6_FailureRecordedBatchContinues ==
    pc = "responded" =>
        \A i \in 1..Len(files) :
            LET S == StagesOf(i)
            IN (S # <<>> /\ ~S[Len(S)].ok) =>
                 LET cause == S[Len(S)].cause
                 IN  /\ response[1].status = 200
                     /\ NamedUpTo(i) <= Len(response[1].results)
                     /\ LET e == response[1].results[NamedUpTo(i)]
                        IN  /\ IsFailed(e)
                            /\ e.filename = Filename(files[i])
                            /\ cause.kind = "status" =>
                                 e.error = "ElevenLabs STT failed (" \o cause.status
                                             \o "): " \o cause.body
                            /\ cause.kind = "raise" => e.error = cause.body
                            /\ cause.kind = "empty" => e.error = "Empty response from OpenAI"
                     /\ \A j \in (i + 1)..Len(files) :
                          Named(j) =>
                            /\ StagesOf(j) # <<>>
                            /\ NamedUpTo(j) <= Len(response[1].results)
                            /\ response[1].results[NamedUpTo(j)].filename
                                 = Filename(files[j])

\* The first file's transcription was answered 429 and the second file was
\* analysed: both entries are in the response.
C6_Witness ==
    /\ pc = "responded"
    /\ Len(files) = 2
    /\ StagesOf(1) # <<>> /\ StagesOf(1)[1].cause.kind = "status"
    /\ response[1].status = 200
    /\ Len(response[1].results) = 2
    /\ response[1].results[1].error = "ElevenLabs STT failed (429): quota exceeded"
    /\ IsDone(response[1].results[2])

(***************************************************************************)
(* C7 as stated: the response contains exactly one results entry per       *)
(* uploaded file, in upload order, and total_processed equals the number   *)
(* of entries in results.                                                  *)
(***************************************************************************)
C7_OneEntryPerUploadedFile ==
    (pc = "responded" /\ response[1].status = 200) =>
        /\ Len(response[1].results) = Len(files)
        /\ \A i \in 1..Len(files) :
             i <= Len(response[1].results)
               /\ response[1].results[i].filename = Filename(files[i])
        /\ response[1].total_processed = Len(response[1].results)

(***************************************************************************)
(* C7 as amended: a 200 response contains exactly one results entry per    *)
(* uploaded file that has a filename, in upload order, and total_processed *)
(* equals the number of entries in results; a file with no filename is     *)
(* skipped without an entry, and when every uploaded file is skipped the   *)
(* handler answers 400 instead.                                            *)
(***************************************************************************)
C7_OneEntryPerNamedFile ==
    (pc = "responded" /\ env.openai /\ env.elevenlabs /\ files # <<>>) =>
        IF NamedUpTo(Len(files)) = 0
        THEN response[1].status = 400
        ELSE /\ response[1].status = 200
             /\ Len(response[1].results) = NamedUpTo(Len(files))
             /\ \A i \in 1..Len(files) :
                  Named(i) => response[1].results[NamedUpTo(i)].filename
                                = Filename(files[i])
             /\ response[1].total_processed = Len(response[1].results)

\* A file with no filename uploaded before a file with one: the response
\* holds the one entry of the second file.
C7_Witness ==
    /\ pc = "responded"
    /\ Len(files) = 2
    /\ ~Named(1) /\ Named(2)
    /\ response[1].status = 200
    /\ response[1].total_processed = 1
    /\ response[1].results[1].filename = Filename(files[2])

(***************************************************************************)
(* C10 as stated, on POST /analyze/: a file whose extension is not one of  *)
(* .wav, .mp3, .m4a, .flac or whose content is empty is rejected at once,  *)
(* and no transcription or generative call is made for it.                 *)
(***************************************************************************)
C10_InvalidFileNoCall ==
    \A i \in 1..Len(files) :
        (files[i].ext \notin allowed_extensions \/ files[i].size = 0)
            => StagesOf(i) = <<>>

(***************************************************************************)
(* Temporary files of the two local servers                                *)
(***************************************************************************)
\* C8: once the Voxtral endpoint /api/analyze has responded, the temporary
\* file it created for the upload no longer exists, whichever way the request
\* ended: a result, an empty upload, a model error or invalid JSON.
C8_VoxtralTempFileDeleted ==
    vx_pc = "responded" => vx_disk = {}

\* C9: once the Flask endpoint /analyze or /analyze/batch has responded, no
\* temporary file it wrote exists any more, whether the analysis returned or
\* raised.
C9_FlaskTempFilesDeleted ==
    fl_pc = "responded" => fl_disk = {}

\* A batch that saved two files, the second of which failed in analysis, and
\* has responded with 500 and nothing left on disk.
C9_Witness ==
    /\ endpoint = "batch"
    /\ fl_pc = "responded"
    /\ Len(temp_files) = 2
    /\ Len(fl_results) = 1
    /\ fl_raised # ""
    /\ fl_response # <<>> /\ fl_response[1].status = 500
    /\ fl_disk = {}

(***************************************************************************)
(* The schema adjustments                                                  *)
(***************************************************************************)
DeprecatedKeys ==
    {"per_turn", "compliance_flags", "escalation_risk", "escalation_reason"}

ValueOf(items, k) == (CHOOSE n \in 1..Len(items) : items[n].key = k)

OtherItems(items) ==
    SelectSeq(items,
              LAMBDA it : it.key \notin DeprecatedKeys \cup {"sentiment_analysis"})

\* C11: after the adjustments an analysis mapping holds none of per_turn,
\* compliance_flags, escalation_risk, escalation_reason; it holds
\* sentiment_analysis, with the model's value when the model gave one and the
\* default sentence otherwise; every other key keeps its place and value.
\* The {"raw_response": text} mapping is adjusted the same way.
C11_SchemaAdjusted ==
    (sentiment_data # <<>> /\ parsed[1].value.kind = "object") =>
        LET before == parsed[1].value.items
            after == sentiment_data[1].items
        IN /\ sentiment_data[1].kind = "object"
           /\ \A k \in DeprecatedKeys : ~HasKey(after, k)
           /\ HasKey(after, "sentiment_analysis")
           /\ after[ValueOf(after, "sentiment_analysis")].value =
                IF HasKey(before, "sentiment_analysis")
                THEN before[ValueOf(before, "sentiment_analysis")].value
                ELSE DefaultSentimentAnalysis
           /\ OtherItems(after) = OtherItems(before)
           /\ (parsed[1].value = RawResponse(text) =>
                 after = <<[key |-> "raw_response", value |-> JStr(text)],
                           [key |-> "sentiment_analysis",
                            value |-> DefaultSentimentAnalysis]>>)

\* A response inside other text whose object holds per_turn, a and
\* escalation_reason: the two are removed, a is kept and the default
\* sentence is added.
C11_Witness ==
    /\ text = <<"x", " ", "{", "P", "1", ",", "K", "1", "1", ",",
                "E", "1", "1", "1", "}", "x">>
    /\ sentiment_data =
         <<JObj(<<[key |-> "a", value |-> JNum(2)],
                  [key |-> "sentiment_analysis",
                   value |-> DefaultSentimentAnalysis]>>)>>

\* C12: whatever the model's response text, the value _safe_parse_json
\* returns is a mapping: a parsed JSON object or {"raw_response": text}.
C12_AnalysisIsMapping ==
    parsed # <<>> => parsed[1].value.kind = "object"

(***************************************************************************)
(* The Voxtral server on output that is no JSON                            *)
(***************************************************************************)
\* The model's text is recoverable when it parses as it stands (trimmed) or
\* between its first "{" and last "}".
Recoverable(t) ==
    \/ Loads(Strip(t)).ok
    \/ HasBraces(Strip(t)) /\ Loads(BraceSpan(Strip(t))).ok

IsWordEvent(w) == "type" \notin DOMAIN w \/ w.type \in {None, "word"}
StartOf(w) == IF "start" \in DOMAIN w THEN w.start ELSE 0
EndOf(w) == IF "end" \in DOMAIN w THEN w.end ELSE StartOf(w)
SpeakerOf(w) == IF "speaker_id" \in DOMAIN w THEN w.speaker_id ELSE "speaker_1"
WordIdx == {i \in 1..Len(words) : IsWordEvent(words[i])}
Largest(S) == CHOOSE m \in S : \A x \in S : x <= m

\* C14: the duration returned is the largest end over the word-type events,
\* those with empty text included, and 0 when there are none; no turn ends
\* after it.
C14_DurationIsMaxEnd ==
    grouping # <<>> =>
        /\ grouping[1].duration =
             IF WordIdx = {} THEN 0
             ELSE Largest({EndOf(words[i]) : i \in WordIdx})
        /\ \A k \in 1..Len(grouping[1].turns) :
             grouping[1].turns[k].end <= grouping[1].duration

\* One spoken word ending at 1, a blank word ending at 2 and an audio event
\* ending at 3: the duration is 2 and the only turn ends at 1.
C14_Witness ==
    /\ words =
         <<[type |-> "word", speaker_id |-> "speaker_0", start |-> 0, end |-> 1, text |-> <<"a">>],
           [type |-> "word", speaker_id |-> "speaker_1", start |-> 1, end |-> 2, text |-> <<" ">>],
           [type |-> "audio_event", speaker_id |-> "speaker_3", start |-> 0, end |-> 3, text |-> <<"a">>]>>
    /\ grouping # <<>>
    /\ grouping[1].duration = 2
    /\ Len(grouping[1].turns) = 1 /\ grouping[1].turns[1].end = 1

FirstBy(s) == CHOOSE n \in 1..Len(wlist) :
    SpeakerOf(wlist[n]) = s /\ \A m \in 1..(n - 1) : SpeakerOf(wlist[m]) # s

\* C15: the speakers list holds each speaker id of the word-type events
\* once, in the order in which the loop first meets them; an event without a
\* speaker id counts as 'speaker_1'.
C15_SpeakersFirstAppearance ==
    grouping # <<>> =>
        LET speakers == grouping[1].speakers
        IN /\ \A i, j \in 1..Len(speakers) : speakers[i] = speakers[j] => i = j
           /\ {speakers[k] : k \in 1..Len(speakers)} =
                {SpeakerOf(words[i]) : i \in WordIdx}
           /\ \A i, j \in 1..Len(speakers) :
                i < j => FirstBy(speakers[i]) < FirstBy(speakers[j])

\* An event without a speaker id comes first, then speaker_0, and
\* speaker_1 by name is taken between them: speaker_1 is listed once, first.
C15_Witness ==
    /\ words =
         <<[type |-> "word", start |-> 0, end |-> 2, text |-> <<"b">>],
           [type |-> "word", speaker_id |-> "speaker_0", start |-> 1, end |-> 2, text |-> <<"a">>],
           [speaker_id |-> "speaker_1", start |-> 1, end |-> 1, text |-> <<"b">>]>>
    /\ grouping # <<>>
    /\ grouping[1].speakers = <<"speaker_1", "speaker_0">>

\* The order the claim gives the word-type events: by (start, end) with a
\* missing end taken as the start, ties in the order received.
Received == SelectSeq(words, IsWordEvent)
ClaimKey(w) == <<StartOf(w), EndOf(w)>>
ClaimBefore(i, j) ==
    \/ ClaimKey(Received[i])[1] < ClaimKey(Received[j])[1]
    \/ /\ ClaimKey(Received[i])[1] = ClaimKey(Received[j])[1]
       /\ ClaimKey(Received[i])[2] < ClaimKey(Received[j])[2]
    \/ ClaimKey(Received[i]) = ClaimKey(Received[j]) /\ i < j
ClaimRank(i) == Cardinality({j \in 1..Len(Received) : ClaimBefore(j, i)}) + 1

\* C19: the loop takes the word-type events in ascending order of
\* (start, end), an event with no end as if its end were its start, and
\* events with the same (start, end) in the order received.
C19_ProcessedByStartEnd ==
    grouping # <<>> =>
        /\ Len(wlist) = Len(Received)
        /\ \A i \in 1..Len(Received) : wlist[ClaimRank(i)] = Received[i]

\* Turn t can have been opened by word w.
Opens(w, t) ==
    /\ IsWordEvent(w)
    /\ SpeakerOf(w) = t.speaker_id
    /\ StartOf(w) = t.start
    /\ "text" \in DOMAIN w /\ Strip(w.text) # <<>>

\* The turns are in the order in which their first words stand in ws.
TurnsInOrderOf(ws) ==
    \E f \in [1..Len(grouping[1].turns) -> 1..Len(ws)] :
        /\ \A k \in 1..Len(grouping[1].turns) : Opens(ws[f[k]], grouping[1].turns[k])
        /\ \A k, l \in 1..Len(grouping[1].turns) : k < l => f[k] < f[l]

\* C20 as stated: no turn starts before the turn before it ends, and the
\* turns are in the order in which their first words arrived.
C20_TurnsDisjointInArrivalOrder ==
    grouping # <<>> =>
        /\ \A k \in 1..(Len(grouping[1].turns) - 1) :
             grouping[1].turns[k + 1].start >= grouping[1].turns[k].end
        /\ TurnsInOrderOf(words)

\* C20 as amended: no turn starts before the turn before it starts, and the
\* turns are in the order in which the loop took their first words.
C20_TurnsByStartInProcessingOrder ==
    grouping # <<>> =>
        /\ \A k \in 1..(Len(grouping[1].turns) - 1) :
             grouping[1].turns[k + 1].start >= grouping[1].turns[k].start
        /\ TurnsInOrderOf(wlist)

\* speaker_0's word 1-2 arrives before the unnamed speaker's word 0-2: the
\* turns overlap and the later arrival comes first.
C20_Witness ==
    /\ words =
         <<[type |-> "word", speaker_id |-> "speaker_0", start |-> 1, end |-> 2, text |-> <<"a">>],
           [type |-> "word", start |-> 0, end |-> 2, text |-> <<"b">>]>>
    /\ grouping # <<>>
    /\ Len(grouping[1].turns) = 2
    /\ grouping[1].turns[1].speaker_id = "speaker_1"
    /\ grouping[1].turns[2].start < grouping[1].turns[1].end

(***************************************************************************)
(* Time formatting                                                         *)
(***************************************************************************)
IsDigit(c) == \E d \in 1..10 : DigitChars[d] = c
DigitVal(c) == (CHOOSE d \in 1..10 : DigitChars[d] = c) - 1
RECURSIVE NumOf(_)
NumOf(t) ==
    IF t = <<>> THEN 0
    ELSE NumOf(SubSeq(t, 1, Len(t) - 1)) * 10 + DigitVal(t[Len(t)])
AllDigits(t) == \A i \in 1..Len(t) : IsDigit(t[i])

\* The fraction of a time of n ticks to the nearest millisecond.
TicksPerMilli == TicksPerSecond \div 1000
FracTicks(n) == n % TicksPerSecond
Dist(k, n) ==
    IF k * TicksPerMilli >= FracTicks(n)
    THEN k * TicksPerMilli - FracTicks(n)
    ELSE FracTicks(n) - k * TicksPerMilli
NearestMilli(n) == CHOOSE k \in 0..1000 : \A j \in 0..1000 : Dist(k, n) <= Dist(j, n)

\* C16: for a duration of zero or more seconds the result reads
\* HH:MM:SS.mmm: two digits each (hours below 100), minutes and seconds in
\* 00..59, exactly three millisecond digits; hours, minutes and seconds make
\* up the whole seconds and mmm is the fraction to the nearest millisecond.
\* 125.4 gives 00:02:05.400.
C16_FormatShape ==
    (formatted # <<>> /\ seconds # <<>>) =>
        LET out == formatted[1]
            hh == SubSeq(out, 1, 2)
            mm == SubSeq(out, 4, 5)
            ss == SubSeq(out, 7, 8)
            mmm == SubSeq(out, 10, Len(out))
        IN /\ Len(out) = 12
           /\ out[3] = ":" /\ out[6] = ":" /\ out[9] = "."
           /\ AllDigits(hh) /\ AllDigits(mm) /\ AllDigits(ss) /\ AllDigits(mmm)
           /\ NumOf(mm) <= 59 /\ NumOf(ss) <= 59
           /\ Len(mmm) = 3
           /\ NumOf(hh) * 3600 + NumOf(mm) * 60 + NumOf(ss) =
                seconds[1] \div TicksPerSecond
           /\ NumOf(mmm) = NearestMilli(seconds[1])
           /\ (seconds[1] = 125 * TicksPerSecond + 2000 =>
                 out = <<"0", "0", ":", "0", "2", ":", "0", "5", ".", "4", "0", "0">>)

\* C17: a missing duration is rendered as 00:00:00.000, as a duration of
\* zero is.
C17_NoneAsZero ==
    (formatted # <<>> /\ seconds = <<>>) =>
        /\ formatted[1] = <<"0", "0", ":", "0", "0", ":", "0", "0", ".", "0", "0", "0">>
        /\ formatted[1] = _format_hhmmss(<<0>>)

(***************************************************************************)
(* The transcript block                                                    *)
(***************************************************************************)
\* The lines of a text: its parts between newlines.
RECURSIVE SplitLines(_)
SplitLines(t) ==
    IF \E i \in 1..Len(t) : t[i] = "\n"
    THEN LET i == CHOOSE i \in 1..Len(t) : t[i] = "\n" /\ \A j \in 1..(i - 1) : t[j] # "\n"
         IN <<SubSeq(t, 1, i - 1)>> \o SplitLines(SubSeq(t, i + 1, Len(t)))
    ELSE <<t>>

\* A text without the white space at its ends.
TrimmedOf(t) ==
    IF \A i \in 1..Len(t) : IsSpace(t[i]) THEN <<>>
    ELSE SubSeq(t,
                CHOOSE i \in 1..Len(t) : ~IsSpace(t[i]) /\ \A j \in 1..(i - 1) : IsSpace(t[j]),
                CHOOSE i \in 1..Len(t) : ~IsSpace(t[i]) /\ \A j \in (i + 1)..Len(t) : IsSpace(t[j]))

EntryOf(spk) == label_map[CHOOSE k \in 1..Len(label_map) : label_map[k].speaker_id = spk]

\* C18: the transcript has one line per turn, in turn order, each reading
\* "[<start> - <end>] <label>: <text>" with the times as _format_hhmmss
\* gives them, the label of the turn's speaker in the label map and the
\* turn's text trimmed; no turns give the empty string.
C18_OneLinePerTurn ==
    transcript_block # <<>> =>
        IF turns = <<>> THEN transcript_block[1] = <<>>
        ELSE LET lines == SplitLines(transcript_block[1])
             IN /\ Len(lines) = Len(turns)
                /\ \A k \in 1..Len(turns) :
                     lines[k] =
                        <<"[">> \o _format_hhmmss(<<turns[k].start>>)
                        \o <<" ", "-", " ">> \o _format_hhmmss(<<turns[k].end>>)
                        \o <<"]", " ", "S", "p", "e", "a", "k", "e", "r", " ">>
                        \o Digits(EntryOf(turns[k].speaker_id).label)
                        \o <<":", " ">> \o TrimmedOf(turns[k].text)

\* Two turns, the second with a text to trim and a speaker labelled 1.
C18_Witness ==
    /\ turns =
         <<[speaker_id |-> "speaker_0", start |-> 0, end |-> 7000, text |-> <<"h", "i">>],
           [speaker_id |-> "speaker_1", start |-> 627000, end |-> 627001,
            text |-> <<" ", "y", "o", " ", "u", "\n">>]>>
    /\ label_map[1].speaker_id = "speaker_1"
    /\ transcript_block =
         << <<"[", "0", "0", ":", "0", "0", ":", "0", "0", ".", "0", "0", "0", " ", "-", " ",
              "0", "0", ":", "0", "0", ":", "0", "1", ".", "4", "0", "0", "]", " ",
              "S", "p", "e", "a", "k", "e", "r", " ", "2", ":", " ", "h", "i", "\n",
              "[", "0", "0", ":", "0", "2", ":", "0", "5", ".", "4", "0", "0", " ", "-", " ",
              "0", "0", ":", "0", "2", ":", "0", "5", ".", "4", "0", "0", "]", " ",
              "S", "p", "e", "a", "k", "e", "r", " ", "1", ":", " ", "y", "o", " ", "u">> >>

(***************************************************************************)
(* One speaker throughout                                                  *)
(***************************************************************************)
SameSpeaker == \A i, j \in WordIdx : SpeakerOf(words[i]) = SpeakerOf(words[j])
Smallest(S) == CHOOSE m \in S : \A x \in S : m <= x
SpokenIdx == {i \in WordIdx : HasText(words[i])}
SpokenTaken == SelectSeq(wlist, HasText)

\* C21 (as stated): when every word of a non-empty input has the same
\* speaker, exactly one turn is returned, its start is the smallest word
\* start and its end equals the returned duration.
C21_OneTurnSpansFullRange ==
    (grouping # <<>> /\ WordIdx # {} /\ SameSpeaker) =>
        /\ Len(grouping[1].turns) = 1
        /\ grouping[1].turns[1].start = Smallest({StartOf(words[i]) : i \in WordIdx})
        /\ grouping[1].turns[1].end = grouping[1].duration

\* C21 (amended): when every word has the same speaker and some word has
\* text, exactly one turn is returned; it starts at the smallest start of the
\* words with text and ends where the last word with text taken by the loop
\* ends, which is at most the returned duration.  With no word with text no
\* turn is returned.
C21_OneTurnFirstToLastSpoken ==
    (grouping # <<>> /\ WordIdx # {} /\ SameSpeaker) =>
        IF SpokenIdx = {} THEN grouping[1].turns = <<>>
        ELSE /\ Len(grouping[1].turns) = 1
             /\ grouping[1].turns[1].start =
                  Smallest({StartOf(words[i]) : i \in SpokenIdx})
             /\ grouping[1].turns[1].end = EndOf(SpokenTaken[Len(SpokenTaken)])
             /\ grouping[1].turns[1].end <= grouping[1].duration

\* One speaker, a word from 0 to 2 and a later word from 1 to 1 inside it:
\* the turn ends at 1 and the duration is 2.
C21_Witness ==
    /\ grouping # <<>>
    /\ WordIdx # {}
    /\ SameSpeaker
    /\ Cardinality(SpokenIdx) >= 2
    /\ Len(grouping[1].turns) = 1
    /\ grouping[1].turns[1].end < grouping[1].duration

\* C22: when every word-type event starts no later than it ends (a missing
\* end counting as the start), every turn returned starts no later than it
\* ends, whatever the order and the overlap of the events.
C22_TurnStartsBeforeEnd ==
    (grouping # <<>> /\ \A i \in WordIdx : StartOf(words[i]) <= EndOf(words[i])) =>
        \A k \in 1..Len(grouping[1].turns) :
            grouping[1].turns[k].start <= grouping[1].turns[k].end

\* A turn of two words received out of order, the later one inside the
\* earlier one: the turn runs from 0 to 1.
C22_Witness ==
    /\ words =
         <<[speaker_id |-> "speaker_1", start |-> 1, end |-> 1, text |-> <<"b">>],
           [type |-> "word", start |-> 0, end |-> 2, text |-> <<"b">>]>>
    /\ grouping # <<>>
    /\ Len(grouping[1].turns) = 1
    /\ grouping[1].turns[1].start = 0
    /\ grouping[1].turns[1].end = 1

(***************************************************************************)
(* The turn grouper on events whose start or end is no number              *)
(***************************************************************************)
\* An event with a start or an end that is null or no number replaced by 0;
\* a missing start is 0 and a missing end is the start.
ZeroedStart(w) == IF "start" \in DOMAIN w THEN w.start ELSE 0
ZeroedEnd(w) ==
    IF "end" \in DOMAIN w THEN w.end
    ELSE IF "end" \in NonNumeric(w) THEN 0
    ELSE ZeroedStart(w)
Zeroed(w) ==
    [type |-> w.type, speaker_id |-> w.speaker_id, text |-> w.text,
     start |-> ZeroedStart(w), end |-> ZeroedEnd(w)]
ZeroedWords == [n \in 1..Len(words) |-> Zeroed(words[n])]

\* C23: _group_into_turns never raises, and an event whose start or end is
\* null or not a number is processed with that field taken as 0.
C23_NoErrorOutcome ==
    /\ group_error = <<>>
    /\ grouping # <<>> => grouping[1] = _group_into_turns(ZeroedWords)

(***************************************************************************)
(* Events that are no words, and the normal form of the events             *)
(***************************************************************************)
\* An event with its missing or null type written out as "word".
Typed(w) ==
    [k \in DOMAIN w \cup {"type"} |->
        IF k = "type" THEN (IF IsWordEvent(w) THEN "word" ELSE w.type) ELSE w[k]]
TypedWords == [n \in 1..Len(words) |-> Typed(words[n])]
HasOtherType(w) == "type" \in DOMAIN w /\ w.type # "word"
WithoutOtherTypes == SelectSeq(words, LAMBDA w : ~HasOtherType(w))

\* C24 (as stated): removing the events whose type is present and different
\* from "word" leaves the turns, the speakers and the duration unchanged.
C24_OtherTypesHaveNoEffect ==
    grouping # <<>> => grouping[1] = _group_into_turns(WithoutOtherTypes)

\* C24 (amended): removing the events whose type is present, not null and
\* different from "word" leaves the turns, the speakers and the duration
\* unchanged, and so does writing "word" into the events whose type is
\* missing or null.
C24_NonWordsHaveNoEffect ==
    grouping # <<>> =>
        /\ grouping[1] = _group_into_turns(Received)
        /\ grouping[1] = _group_into_turns(TypedWords)

\* An audio event of a speaker of its own that outlasts the words, between a
\* word without type and a word of type null of the same speaker.
C24_Witness ==
    /\ grouping # <<>>
    /\ Len(words) = 3
    /\ "type" \notin DOMAIN words[1]
    /\ HasOtherType(words[2]) /\ words[2].type = "audio_event"
    /\ HasOtherType(words[3]) /\ words[3].type = None
    /\ Len(grouping[1].turns) = 1
    /\ grouping[1].speakers = <<"speaker_1">>
    /\ grouping[1].duration = 3
    /\ grouping[1].turns[1].end = 3

\* C25: filtering to the word-type events and sorting them is idempotent:
\* the events as the loop takes them are left as they are, in the same
\* order, by filtering and sorting them again, and grouping them gives the
\* result that grouping the events received gives.
C25_NormalizationIdempotent ==
    grouping # <<>> =>
        /\ Processed(wlist) = wlist
        /\ _group_into_turns(wlist) = grouping[1]

\* Three events received out of order, one of them no word and two of them
\* different words with the same start and end.
C25_Witness ==
    /\ grouping # <<>>
    /\ Len(words) = 3
    /\ Len(wlist) = 2
    /\ wlist # Received
    /\ wlist[1] # wlist[2]
    /\ StartOf(wlist[1]) = StartOf(wlist[2])
    /\ EndOf(wlist[1]) = EndOf(wlist[2])

(***************************************************************************)
(* The speaker labels of the transcript                                    *)
(***************************************************************************)
\* The label a line of the transcript prints: what stands between the
\* bracketed times and the colon after them.
LabelStart ==
    Len(<<"[">> \o _format_hhmmss(<<0>>) \o <<" ", "-", " ">>
        \o _format_hhmmss(<<0>>) \o <<"]", " ">>) + 1
PrintedLabel(line) ==
    LET j == CHOOSE j \in LabelStart..Len(line) :
                line[j] = ":" /\ \A i \in LabelStart..(j - 1) : line[i] # ":"
    IN SubSeq(line, LabelStart, j - 1)
Lines == SplitLines(transcript_block[1])

\* The speakers of the turns, the first turn of each, and the rank of a
\* speaker by first appearance among the turns.
TurnSpeakers == {turns[k].speaker_id : k \in 1..Len(turns)}
FirstTurnOf(s) == CHOOSE k \in 1..Len(turns) :
    turns[k].speaker_id = s /\ \A j \in 1..(k - 1) : turns[j].speaker_id # s
TurnRank(s) ==
    Cardinality({r \in TurnSpeakers : FirstTurnOf(r) < FirstTurnOf(s)}) + 1

\* The rank of a speaker by first appearance among the word-type events as
\* the loop takes them, those with blank text included.
WordSpeakers == {SpeakerOf(wlist[n]) : n \in 1..Len(wlist)}
WordRank(s) == Cardinality({r \in WordSpeakers : FirstBy(r) < FirstBy(s)}) + 1

DistinctLabels ==
    \A i, j \in 1..Len(label_map) :
        label_map[i].speaker_id # label_map[j].speaker_id =>
            label_map[i].label # label_map[j].label

\* C26 (as stated): the k-th distinct speaker to appear in the rendered
\* transcript is labelled "Speaker k", and two different speaker ids never
\* get the same label.
C26_LabelsByAppearanceInTranscript ==
    (transcript_block # <<>> /\ turns # <<>>) =>
        /\ \A k \in 1..Len(turns) :
             PrintedLabel(Lines[k]) = LabelChars(TurnRank(turns[k].speaker_id))
        /\ DistinctLabels

\* C26 (amended): the label of a speaker is "Speaker k" for the k-th distinct
\* speaker among the word-type events in processing order, those with blank
\* text included; every line of the transcript prints its speaker's label,
\* and two different speaker ids never get the same label.
C26_LabelsByAppearanceInWords ==
    (transcript_block # <<>> /\ turns # <<>>) =>
        /\ \A k \in 1..Len(turns) :
             PrintedLabel(Lines[k]) = LabelChars(WordRank(turns[k].speaker_id))
        /\ \A k \in 1..Len(label_map) :
             label_map[k].label = WordRank(label_map[k].speaker_id)
        /\ DistinctLabels

\* A speaker with a blank word only comes first: the transcript's only
\* speaker is labelled "Speaker 2".
C26_Witness ==
    /\ transcript_block # <<>>
    /\ Len(turns) = 1
    /\ Len(label_map) = 2
    /\ PrintedLabel(Lines[1]) = <<"S", "p", "e", "a", "k", "e", "r", " ", "2">>

(***************************************************************************)
(* POST /analyze/batch: a file whose analysis fails                        *)
(***************************************************************************)
\* C27: when the analysis of a file of a batch raises, the response is the
\* batch's 200 whose results hold an entry for that file (filename, error,
\* success false) next to the entries of the files before it.
C27_BatchFailureIsAnEntry ==
    (endpoint = "batch" /\ fl_pc = "responded" /\ fl_raised # "") =>
        /\ fl_response[1].status = 200
        /\ fl_response[1].body # <<>>
        /\ LET rs == fl_response[1].body[1].results
           IN /\ \E k \in 1..Len(rs) :
                   /\ rs[k].filename = FlFilename(audio_files[fl_i])
                   /\ ~rs[k].success
                   /\ rs[k].error = fl_raised
              /\ \A k \in 1..Len(fl_results) : rs[k] = fl_results[k]

(***************************************************************************)
(* Every turn's speaker has a label                                        *)
(***************************************************************************)
Listed(spk) == \E n \in 1..Len(grouping[1].speakers) : grouping[1].speakers[n] = spk
Labelled(spk) == \E n \in 1..Len(label_map) : label_map[n].speaker_id = spk

\* C30: every turn returned has a text that is not empty and a speaker id
\* that is in the speakers list returned, so that the label map has an entry
\* for it and its line of the transcript prints "Speaker k", never the
\* speaker id itself.
C30_TurnSpeakersAreLabelled ==
    (grouping # <<>> /\ transcript_block # <<>>) =>
        \A k \in 1..Len(grouping[1].turns) :
            /\ grouping[1].turns[k].text # <<>>
            /\ Listed(grouping[1].turns[k].speaker_id)
            /\ Labelled(grouping[1].turns[k].speaker_id)
            /\ PrintedLabel(Lines[k]) # <<grouping[1].turns[k].speaker_id>>
            /\ PrintedLabel(Lines[k]) =
                 LabelChars(EntryOf(grouping[1].turns[k].speaker_id).label)

\* Two speakers with a turn each and a third who is listed and labelled
\* without having a turn.
C30_Witness ==
    /\ grouping # <<>>
    /\ transcript_block # <<>>
    /\ Len(grouping[1].turns) = 2
    /\ Len(grouping[1].speakers) = 3
    /\ Cardinality(TurnSpeakers) = 2
    /\ \E n \in 1..Len(label_map) : label_map[n].speaker_id \notin TurnSpeakers

(***************************************************************************)
(* get_analyzer under concurrent first requests                            *)
(***************************************************************************)
\* C29: the analyzer is constructed at most once in the process, and every
\* request that get_analyzer has returned to is served by the same instance.
C29_AnalyzerConstructedOnce ==
    /\ constructions <= 1
    /\ \A t, u \in Threads :
         (ga_pc[t] = "done" /\ ga_pc[u] = "done") => ga_got[t] = ga_got[u]

(***************************************************************************)
(* Two POST /analyze/ requests served together                             *)
(***************************************************************************)
\* What a request that runs alone appends for its i-th file, given what the
\* services answered it: nothing for a file without a filename, the error
\* entry of the first stage that fails, or else the file's result.
AnswerOf(log, i, stage) ==
    log[CHOOSE n \in 1..Len(log) : log[n].file = i /\ log[n].stage = stage].answer
AloneEntry(fs, log, i) ==
    IF Filename(fs[i]) = "" THEN <<>>
    ELSE LET a == AnswerOf(log, i, "transcription")
         IN IF a.kind # "ok" THEN <<ErrorEntry(fs[i], SttFailure(a))>>
            ELSE IF a.null_start THEN <<ErrorEntry(fs[i], FloatOfNone)>>
            ELSE LET g == AnswerOf(log, i, "generation")
                 IN IF g.kind = "raise" THEN <<ErrorEntry(fs[i], g.message)>>
                    ELSE IF ResponseText(g) = <<>>
                    THEN <<ErrorEntry(fs[i], "Empty response from OpenAI")>>
                    ELSE IF _safe_parse_json(ResponseText(g)).raised
                    THEN <<ErrorEntry(fs[i], "JSONDecodeError")>>
                    ELSE <<ResultEntry(fs[i], PromptOf(fs[i], a), Strip(a.text),
                                       AdjustSchema(_safe_parse_json(ResponseText(g)).value))>>
RECURSIVE AloneResults(_, _, _)
AloneResults(fs, log, n) ==
    IF n = 0 THEN <<>> ELSE AloneResults(fs, log, n - 1) \o AloneEntry(fs, log, n)

\* The number of files a coroutine is through with.
FilesDone(f) ==
    IF f.pc \in {"next_file", "after_loop", "responded"}
    THEN (IF f.file_idx > Len(f.files) THEN Len(f.files) ELSE f.file_idx)
    ELSE IF f.file_idx = 0 THEN 0 ELSE f.file_idx - 1

\* A coroutine's locals are the ones it would have alone.
AsAlone(f) ==
    /\ f.results = AloneResults(f.files, f.answers, FilesDone(f))
    /\ f.pc \in {"awaiting_model", "parsing"} =>
         f.prompt = PromptOf(f.files[f.file_idx],
                             AnswerOf(f.answers, f.file_idx, "transcription"))
    /\ (f.pc = "responded" /\ f.results # <<>>) =>
         /\ f.response[1].results = AloneResults(f.files, f.answers, Len(f.files))
         /\ f.response[1].total_processed = Len(f.response[1].results)

\* C28: under every interleaving of two requests, the results list, the
\* prompt and the parsed analyses of each request are the ones it would
\* produce alone with the same answers of the services.
C28_RequestsShareNoState ==
    running # 0 => AsAlone(Frame) /\ (suspended # <<>> => AsAlone(suspended[1]))

\* Both requests have responded with results, and the one that waits took
\* its answers between two steps of the other.
C28_Witness ==
    /\ running = 2
    /\ pc = "responded"
    /\ suspended # <<>>
    /\ suspended[1].pc = "responded"
    /\ results # <<>>
    /\ suspended[1].results # <<>>
    /\ Len(files) = 2
    /\ Len(results) = 2
    /\ "analysis" \in DOMAIN results[2]
    /\ "analysis" \in DOMAIN suspended[1].results[1]

====
